---- MODULE Spec2Model ----
(***************************************************************************)
(* Model of the valuation orchestrator (runValuation) of dcf-valuation and *)
(* of the components it drives: prefill, override application, the DCF     *)
(* engine, the Layer B structural check, Monte Carlo parameter handling    *)
(* and Layer C.                                                            *)
(*                                                                         *)
(* Units.  Rates (wacc, growth, margins, ROIC) are integers in units of    *)
(* 1e-4 (basis points): 0.005 is 50, 0.30 is 3000.  Quantities that the    *)
(* code rounds with Math.round (fadeYears, explicitPeriodYears,            *)
(* iterations) are requested in tenths (2.5 years is 25) and stored in     *)
(* whole units.  Revenue is in millions, capital-structure amounts         *)
(* (marketCap, totalDebt, interestExpense) in units of 1e8.                *)
(* A JavaScript value that may be absent or non-finite is a record         *)
(* [t, v]: t is "number" (v the value), "NaN", "Infinity", "string" or     *)
(* "undefined".                                                            *)
(***************************************************************************)
EXTENDS Integers, Sequences, FiniteSets, TLC

VARIABLES
    financialData,      \* RunValuationInput.financialData
    waccInputs,         \* RunValuationInput.waccInputs
    overrides,          \* RunValuationInput.overrides
    includeDistribution, \* RunValuationInput.includeDistribution
    numerics,           \* outcome of the floating-point arithmetic that is not modelled
    pc,                 \* position inside runValuation: [at, m], m the method index
    frame,              \* locals of the loop body: methodInputs, dcf, layerB
    prefilled,          \* createPrefilledDCFInputs(...) result
    effectiveDcfInputs, \* applyDcfOverrides(...) result
    warnings,           \* the warnings array of runValuation
    results,            \* results[method] = {dcf, layerB, monteCarlo}
    monteCarloByMethod, \* monteCarloByMethod[method] = MonteCarloParams
    layerC,             \* calculateMarketImplied(...) result
    outcome,            \* what runValuation gave its caller
    calls,              \* the components called so far, in order, with their inputs
    sim,                \* one runMonteCarloSimulation call: its arguments and locals
    spareNormal,        \* the module-level cache of the second Box-Muller variate
    engine,             \* one evaluation of the valuation engines on exact numbers
    http,               \* one POST /v1/valuation request on its way through the worker
    store,              \* the state of the app's zustand store
    loads,              \* the loadSymbol calls made so far, in order, each with its position
    browser             \* whether Worker exists, and the workers started so far, by run

vars == <<financialData, waccInputs, overrides, includeDistribution, numerics, pc, frame, prefilled,
          effectiveDcfInputs, warnings, results, monteCarloByMethod, layerC,
          outcome, calls, sim, spareNormal, engine, http,
          store, loads, browser>>

\* the state of the Monte Carlo engine
simVars == <<sim, spareNormal>>

\* the state outside runValuation and the Monte Carlo engine
\* the app: its store, its pending loads, its workers
appVars == <<store, loads, browser>>

otherVars == <<engine, http, appVars>>

----------------------------------------------------------------------------
(* JavaScript values *)

Num(n) == [t |-> "number", v |-> n]
NaN == [t |-> "NaN", v |-> 0]
Infinity == [t |-> "Infinity", v |-> 0]
Str == [t |-> "string", v |-> 0]
Undefined == [t |-> "undefined", v |-> 0]

\* typeof value === 'number' && Number.isFinite(value)
IsFiniteNumber(x) == x.t = "number"

MinOf(a, b) == IF a <= b THEN a ELSE b
MaxOf(a, b) == IF a >= b THEN a ELSE b
Abs(a) == IF a < 0 THEN -a ELSE a

\* Math.round on a value given in tenths: floor(x + 0.5)
MathRoundTenths(t) == (t + 5) \div 10

----------------------------------------------------------------------------
(* Program constants of the orchestrator *)

DEFAULT_MONTE_CARLO_ITERATIONS == 3000
MAX_MONTE_CARLO_ITERATIONS == 20000
MIN_WACC_TERMINAL_SPREAD == 50

NoError == [code |-> "none", path |-> "", year |-> 0, key |-> ""]
HttpError(code, path, year, key) == [code |-> code, path |-> path, year |-> year, key |-> key]

Warning(kind, a, b) == [kind |-> kind, a |-> a, b |-> b]

clamp(value, min, max) == MinOf(max, MaxOf(min, value))

----------------------------------------------------------------------------
(* Prefill engine *)

createDefaultDrivers ==
    [revenueGrowth |-> 1000, grossMargin |-> 4000, operatingMargin |-> 2000,
     taxRate |-> 2100, daPercent |-> 300, capexPercent |-> 400,
     wcChangePercent |-> 100]

createDefaultDCFInputs(symbol, baseRevenue, baseNetIncome) ==
    [symbol |-> symbol,
     explicitPeriodYears |-> 5,
     drivers |-> [i \in 1..5 |-> createDefaultDrivers],
     terminalMethod |-> "perpetuity",
     terminalGrowthRate |-> 300,
     steadyStateROIC |-> 1200,
     fadeYears |-> 10,
     fadeStartGrowth |-> 1000,
     fadeStartROIC |-> 2000,
     wacc |-> 1000,
     baseRevenue |-> baseRevenue,
     baseNetIncome |-> baseNetIncome]

\* interestExpense / totalDebt, compared exactly, returned on the 1e-4 grid
calculateCostOfDebt(interestExpense, totalDebt) ==
    IF totalDebt <= 0 \/ interestExpense < 0 THEN 600
    ELSE IF interestExpense * 10000 < 200 * totalDebt THEN 400
    ELSE IF interestExpense * 10000 > 1500 * totalDebt THEN 1000
    ELSE (interestExpense * 10000) \div totalDebt

\* equityWeight * costOfEquity + debtWeight * costOfDebt * (1 - effectiveTaxRate);
\* NaN as soon as beta is not a finite number
calculatedWacc(fin, wi) ==
    IF ~IsFiniteNumber(fin.beta) THEN NaN
    ELSE LET costOfEquity == wi.riskFreeRate + (fin.beta.v * wi.marketRiskPremium) \div 100
             costOfDebt == calculateCostOfDebt(fin.interestExpense, fin.totalDebt)
             totalCapital == fin.marketCap + fin.totalDebt
             equityWeight == IF totalCapital > 0
                             THEN (fin.marketCap * 10000) \div totalCapital
                             ELSE 8000
             debtWeight == 10000 - equityWeight
             effectiveTaxRate == IF IsFiniteNumber(fin.effectiveTaxRate)
                                 THEN fin.effectiveTaxRate.v ELSE 2100
             afterTaxDebt == (costOfDebt * (10000 - effectiveTaxRate)) \div 10000
         IN Num((equityWeight * costOfEquity + debtWeight * afterTaxDebt) \div 10000)

\* variant that clamps whatever was calculated
finalWacc_ClampOnly(cw) == clamp(cw.v, 600, 1500)

finalWacc(cw) == IF IsFiniteNumber(cw) THEN clamp(cw.v, 600, 1500) ELSE 1000

\* estimate.revenueAvg / prevRevenue - 1 on the 1e-4 grid
GrowthBetween(prev, next) == (next * 10000) \div prev - 10000

\* the loop of lines 337-351: year i (1-based) of the analyst walk
RECURSIVE analystWalk(_, _, _, _)
analystWalk(drivers, estimates, i, prevRevenue) ==
    IF i > 5 THEN drivers
    ELSE IF i <= Len(estimates) /\ estimates[i] > 0 /\ prevRevenue > 0
         THEN analystWalk(
                [drivers EXCEPT ![i].revenueGrowth = GrowthBetween(prevRevenue, estimates[i])],
                estimates, i + 1, estimates[i])
    ELSE IF i > 1
         THEN LET growth == (drivers[i - 1].revenueGrowth * 9) \div 10
              IN analystWalk([drivers EXCEPT ![i].revenueGrowth = growth],
                             estimates, i + 1,
                             (prevRevenue * (10000 + growth)) \div 10000)
    ELSE analystWalk(drivers, estimates, i + 1, prevRevenue)

createPrefilledDCFInputs(symbol, fin, wi) ==
    LET cw == calculatedWacc(fin, wi)
        effectiveTaxRate == IF IsFiniteNumber(fin.effectiveTaxRate)
                            THEN fin.effectiveTaxRate.v ELSE 2100
        baseRevenue == IF fin.latestAnnualRevenue > 0
                       THEN fin.latestAnnualRevenue ELSE fin.ttmRevenue
        baseNetIncome == IF fin.latestAnnualNetIncome > 0
                         THEN fin.latestAnnualNetIncome ELSE fin.ttmNetIncome
        d0 == createDefaultDCFInputs(symbol, baseRevenue, baseNetIncome)
        overlaid == [i \in 1..5 |->
            [d0.drivers[i] EXCEPT
                !.grossMargin = IF fin.grossMargin > 0 THEN fin.grossMargin ELSE @,
                !.operatingMargin = IF fin.operatingMargin > 0 THEN fin.operatingMargin ELSE @,
                !.taxRate = effectiveTaxRate,
                !.daPercent = fin.historicalDAPercent,
                !.capexPercent = fin.historicalCapexPercent,
                !.wcChangePercent = fin.historicalWCChangePercent]]
        estimates == SubSeq(fin.analystEstimates, 1, MinOf(5, Len(fin.analystEstimates)))
        walked == analystWalk(overlaid, estimates, 1, baseRevenue)
        fy == fin.analystEstimates
        g2 == GrowthBetween(fy[1], fy[2])
        drivers ==
            IF Len(estimates) > 0 /\ baseRevenue > 0 THEN walked
            ELSE IF Len(fy) >= 2 /\ fy[1] > 0 /\ fy[2] > 0
                 THEN [i \in 1..5 |->
                        [overlaid[i] EXCEPT !.revenueGrowth = (g2 * (11 - i)) \div 10]]
            ELSE overlaid
        fadeStartGrowth ==
            IF Len(estimates) > 0 /\ baseRevenue > 0 THEN walked[5].revenueGrowth
            ELSE IF Len(fy) >= 2 /\ fy[1] > 0 /\ fy[2] > 0 THEN (g2 * 6) \div 10
            ELSE d0.fadeStartGrowth
    IN [dcfInputs |-> [d0 EXCEPT !.wacc = finalWacc(cw),
                                 !.steadyStateROIC = fin.historicalROIC,
                                 !.fadeStartROIC = fin.historicalROIC,
                                 !.drivers = drivers,
                                 !.fadeStartGrowth = fadeStartGrowth],
        audit |-> [calculatedWacc |-> cw,
                   finalWacc |-> finalWacc(cw),
                   warnings |-> IF IsFiniteNumber(cw) THEN << >>
                                ELSE <<Warning("wacc_not_finite", 0, 0)>>]]

----------------------------------------------------------------------------
(* Orchestrator: override application *)

\* variant that rejects NaN only and lets the infinities and non-numbers through
ensureFiniteNumber_NaNOnly(value, path, year, key) ==
    IF value.t = "NaN" THEN HttpError("invalid_override", path, year, key) ELSE NoError

ensureFiniteNumber(value, path, year, key) ==
    IF IsFiniteNumber(value) THEN NoError
    ELSE HttpError("invalid_override", path, year, key)

DriverKeys == {"revenueGrowth", "operatingMargin", "taxRate", "daPercent",
               "capexPercent", "wcChangePercent", "grossMargin"}

\* the inner loop of applyDriverOverrides over Object.entries(patch), from entry j
RECURSIVE applyPatchEntries(_, _, _)
applyPatchEntries(inputs, patch, j) ==
    IF j > Len(patch.entries) THEN [error |-> NoError, inputs |-> inputs]
    ELSE LET key == patch.entries[j].key
             value == patch.entries[j].value
             e == ensureFiniteNumber(value, "drivers", patch.year, key)
         IN IF key = "year" \/ value = Undefined
            THEN applyPatchEntries(inputs, patch, j + 1)
            ELSE IF e # NoError THEN [error |-> e, inputs |-> inputs]
            ELSE IF key \in DriverKeys
                 THEN applyPatchEntries(
                        [inputs EXCEPT !.drivers[patch.year][key] = value.v],
                        patch, j + 1)
            ELSE applyPatchEntries(inputs, patch, j + 1)

\* variant that leaves the loop at a patch without a matching driver
RECURSIVE applyDriverOverrides_Break(_, _, _, _)
applyDriverOverrides_Break(inputs, patches, w, i) ==
    IF i > Len(patches) THEN [error |-> NoError, inputs |-> inputs, warnings |-> w]
    ELSE IF patches[i].year \notin 1..Len(inputs.drivers)
         THEN [error |-> NoError, inputs |-> inputs,
               warnings |-> Append(w, Warning("driver_override_ignored", patches[i].year, 0))]
    ELSE LET r == applyPatchEntries(inputs, patches[i], 1)
         IN IF r.error # NoError
            THEN [error |-> r.error, inputs |-> r.inputs, warnings |-> w]
            ELSE applyDriverOverrides_Break(r.inputs, patches, w, i + 1)

RECURSIVE applyDriverOverrides(_, _, _, _)
applyDriverOverrides(inputs, patches, w, i) ==
    IF i > Len(patches) THEN [error |-> NoError, inputs |-> inputs, warnings |-> w]
    ELSE IF patches[i].year \notin 1..Len(inputs.drivers)
         THEN applyDriverOverrides(inputs, patches,
                Append(w, Warning("driver_override_ignored", patches[i].year, 0)), i + 1)
    ELSE LET r == applyPatchEntries(inputs, patches[i], 1)
         IN IF r.error # NoError
            THEN [error |-> r.error, inputs |-> r.inputs, warnings |-> w]
            ELSE applyDriverOverrides(r.inputs, patches, w, i + 1)

numberFields == <<"wacc", "terminalGrowthRate", "steadyStateROIC", "fadeYears",
                  "fadeStartGrowth", "fadeStartROIC", "explicitPeriodYears",
                  "baseRevenue", "baseNetIncome">>

\* variant whose wacc range ends at 0.10
applyNumberField_NarrowWacc(inputs, field, numeric) ==
    CASE field = "wacc" ->
            [inputs EXCEPT !.wacc = clamp(numeric, 200, 1000)]
      [] field = "terminalGrowthRate" ->
            [inputs EXCEPT !.terminalGrowthRate = clamp(numeric, -500, 1500)]
      [] field = "steadyStateROIC" ->
            [inputs EXCEPT !.steadyStateROIC = clamp(numeric, 10, 10000)]
      [] field = "fadeYears" ->
            [inputs EXCEPT !.fadeYears = MathRoundTenths(clamp(numeric, 10, 300))]
      [] field = "fadeStartGrowth" ->
            [inputs EXCEPT !.fadeStartGrowth = clamp(numeric, -500, 5000)]
      [] field = "fadeStartROIC" ->
            [inputs EXCEPT !.fadeStartROIC = clamp(numeric, 10, 10000)]
      [] field = "explicitPeriodYears" ->
            [inputs EXCEPT !.explicitPeriodYears =
                MathRoundTenths(clamp(numeric, 10, 10 * Len(inputs.drivers)))]
      [] field = "baseRevenue" ->
            [inputs EXCEPT !.baseRevenue = MaxOf(0, numeric)]
      [] field = "baseNetIncome" ->
            [inputs EXCEPT !.baseNetIncome = numeric]

\* the switch of lines 199-227
applyNumberField(inputs, field, numeric) ==
    CASE field = "wacc" ->
            [inputs EXCEPT !.wacc = clamp(numeric, 200, 3000)]
      [] field = "terminalGrowthRate" ->
            [inputs EXCEPT !.terminalGrowthRate = clamp(numeric, -500, 1500)]
      [] field = "steadyStateROIC" ->
            [inputs EXCEPT !.steadyStateROIC = clamp(numeric, 10, 10000)]
      [] field = "fadeYears" ->
            [inputs EXCEPT !.fadeYears = MathRoundTenths(clamp(numeric, 10, 300))]
      [] field = "fadeStartGrowth" ->
            [inputs EXCEPT !.fadeStartGrowth = clamp(numeric, -500, 5000)]
      [] field = "fadeStartROIC" ->
            [inputs EXCEPT !.fadeStartROIC = clamp(numeric, 10, 10000)]
      [] field = "explicitPeriodYears" ->
            [inputs EXCEPT !.explicitPeriodYears =
                MathRoundTenths(clamp(numeric, 10, 10 * Len(inputs.drivers)))]
      [] field = "baseRevenue" ->
            [inputs EXCEPT !.baseRevenue = MaxOf(0, numeric)]
      [] field = "baseNetIncome" ->
            [inputs EXCEPT !.baseNetIncome = numeric]

\* the loop of lines 195-228, from field i
RECURSIVE applyNumberFields(_, _, _)
applyNumberFields(inputs, fields, i) ==
    IF i > Len(numberFields) THEN [error |-> NoError, inputs |-> inputs]
    ELSE LET field == numberFields[i]
             value == fields[field]
             e == ensureFiniteNumber(value, field, 0, "")
         IN IF value = Undefined THEN applyNumberFields(inputs, fields, i + 1)
            ELSE IF e # NoError THEN [error |-> e, inputs |-> inputs]
            ELSE applyNumberFields(applyNumberField(inputs, field, value.v), fields, i + 1)

\* variant that acts only when the growth rate strictly exceeds wacc
enforceWaccSpread_Strict(r) ==
    IF r.inputs.terminalGrowthRate > r.inputs.wacc
    THEN LET adjusted == r.inputs.wacc - MIN_WACC_TERMINAL_SPREAD
         IN [r EXCEPT !.warnings = Append(@, Warning("terminalGrowthRate_reduced",
                                                     r.inputs.terminalGrowthRate, adjusted)),
                      !.inputs.terminalGrowthRate = adjusted]
    ELSE r

\* lines 234-240
enforceWaccSpread(r) ==
    IF r.inputs.terminalGrowthRate >= r.inputs.wacc
    THEN LET adjusted == r.inputs.wacc - MIN_WACC_TERMINAL_SPREAD
         IN [r EXCEPT !.warnings = Append(@, Warning("terminalGrowthRate_reduced",
                                                     r.inputs.terminalGrowthRate, adjusted)),
                      !.inputs.terminalGrowthRate = adjusted]
    ELSE r

\* lines 242-245
enforceFadeStart(r) ==
    IF r.inputs.terminalMethod = "fade"
       /\ r.inputs.fadeStartGrowth < r.inputs.terminalGrowthRate
    THEN [r EXCEPT !.warnings = Append(@, Warning("fadeStartGrowth_raised", 0, 0)),
                   !.inputs.fadeStartGrowth = r.inputs.terminalGrowthRate]
    ELSE r

\* lines 247-249
checkExplicitPeriod(r) ==
    IF r.inputs.explicitPeriodYears < 1
       \/ r.inputs.explicitPeriodYears > Len(r.inputs.drivers)
    THEN [r EXCEPT !.error = HttpError("invalid_override", "explicitPeriodYears", 0, "")]
    ELSE r

\* variant that hands back the object it was given
clone_Shared(value) == [shared |-> TRUE, value |-> value]

\* lines 114-119: a new object holding a copy of the value
clone(value) == [shared |-> FALSE, value |-> value]

\* lines 195-249, working on the object `inputs`
patchDcfInputs(inputs, dcf, w) ==
    IF ~dcf.present THEN [error |-> NoError, inputs |-> inputs, warnings |-> w]
    ELSE LET n == applyNumberFields(inputs, dcf.fields, 1)
             d == IF Len(dcf.drivers) > 0
                  THEN applyDriverOverrides(n.inputs, dcf.drivers, w, 1)
                  ELSE [error |-> NoError, inputs |-> n.inputs, warnings |-> w]
         IN IF n.error # NoError
            THEN [error |-> n.error, inputs |-> n.inputs, warnings |-> w]
            ELSE IF d.error # NoError THEN d
            ELSE checkExplicitPeriod(enforceFadeStart(enforceWaccSpread(d)))

\* baseInputs in the result is the caller's object once the function is left:
\* it takes the writes made through `inputs` only if both are one object
applyDcfOverrides(baseInputs, dcf, w) ==
    LET inputs == clone(baseInputs)
        r == patchDcfInputs(inputs.value, dcf, w)
    IN [error |-> r.error, inputs |-> r.inputs, warnings |-> r.warnings,
        baseInputs |-> IF inputs.shared THEN r.inputs ELSE baseInputs]

----------------------------------------------------------------------------
(* Orchestrator: Monte Carlo parameters.  A parameter tree is a node        *)
(* [kind, v, f]: kind "number" (v the value), "array" (f the elements),     *)
(* "object" (f maps keys to nodes) or "undefined".                          *)

NoKids == [k \in {} |-> 0]
Leaf(n) == [kind |-> "number", v |-> n, f |-> NoKids]
Arr(a) == [kind |-> "array", v |-> 0, f |-> a]
Obj(f) == [kind |-> "object", v |-> 0, f |-> f]
NoTree == [kind |-> "undefined", v |-> 0, f |-> NoKids]

isObject(node) == node.kind = "object"

RECURSIVE deepMerge(_, _)
deepMerge(base, patch) ==
    IF patch.kind = "undefined" THEN base
    ELSE IF ~isObject(base) \/ ~isObject(patch) THEN patch
    ELSE Obj([key \in DOMAIN base.f \cup DOMAIN patch.f |->
            IF key \notin DOMAIN patch.f THEN base.f[key]
            ELSE IF patch.f[key].kind = "undefined" THEN base.f[key]
            ELSE IF patch.f[key].kind = "array" THEN patch.f[key]
            ELSE IF key \in DOMAIN base.f /\ isObject(base.f[key]) /\ isObject(patch.f[key])
                 THEN deepMerge(base.f[key], patch.f[key])
            ELSE patch.f[key]])

\* the standard deviations are floored products, kept on the 1e-4 grid; the
\* correlation matrix is kept as the list of its row numbers
createDefaultMonteCarloParams(inputs, fin) ==
    Obj([iterations |-> Leaf(10000),
         growth |-> Obj([means |-> Arr([i \in 1..Len(inputs.drivers) |->
                                          inputs.drivers[i].revenueGrowth]),
                         min |-> Leaf(-1500), max |-> Leaf(3000)]),
         wacc |-> Obj([mean |-> Leaf(inputs.wacc),
                       stdDev |-> Leaf(MaxOf(15, (Abs(inputs.wacc) * 15) \div 100)),
                       min |-> Leaf(200), max |-> Leaf(2000)]),
         terminalGrowth |-> Obj([mean |-> Leaf(inputs.terminalGrowthRate),
                                 stdDev |-> Leaf(MaxOf(10, (Abs(inputs.terminalGrowthRate) * 2) \div 10)),
                                 min |-> Leaf(0), max |-> Leaf(600)]),
         correlation |-> Obj([matrix |-> Arr(<<1, 2, 3, 4>>)]),
         terminalModel |-> Obj([
             minWaccSpread |-> Leaf(50),
             roicDriven |-> Obj([
                 steadyStateROIC |-> Obj([mean |-> Leaf(inputs.steadyStateROIC),
                      stdDev |-> Leaf(MaxOf(50, (Abs(inputs.steadyStateROIC) * 25) \div 100)),
                      min |-> Leaf(300), max |-> Leaf(5000)]),
                 maxReinvestmentRate |-> Leaf(8000)]),
             fade |-> Obj([
                 fadeStartGrowth |-> Obj([mean |-> Leaf(inputs.fadeStartGrowth),
                      stdDev |-> Leaf(MaxOf(50, (Abs(inputs.fadeStartGrowth) * 2) \div 10)),
                      min |-> Leaf(0), max |-> Leaf(4000)]),
                 fadeStartROIC |-> Obj([mean |-> Leaf(inputs.fadeStartROIC),
                      stdDev |-> Leaf(MaxOf(50, (Abs(inputs.fadeStartROIC) * 2) \div 10)),
                      min |-> Leaf(300), max |-> Leaf(6000)])])])])

\* lines 266-272; the requested count is in tenths
clampIterations(requested) ==
    MathRoundTenths(clamp(requested, 10, 10 * MAX_MONTE_CARLO_ITERATIONS))

iterationsWarnings(requested, w) ==
    IF requested > 10 * MAX_MONTE_CARLO_ITERATIONS
    THEN Append(w, Warning("iterations_clamped", requested, MAX_MONTE_CARLO_ITERATIONS))
    ELSE w

mergeParams(params, patch) == deepMerge(params, patch)

applyMonteCarloOverrides(baseParams, mc, w) ==
    LET params == [baseParams EXCEPT !.f.iterations = Leaf(DEFAULT_MONTE_CARLO_ITERATIONS)]
        e == ensureFiniteNumber(mc.iterations, "monteCarlo.iterations", 0, "")
        withIterations ==
            IF mc.iterations = Undefined THEN params
            ELSE [params EXCEPT !.f.iterations = Leaf(clampIterations(mc.iterations.v))]
        w2 == IF mc.iterations = Undefined THEN w
              ELSE iterationsWarnings(mc.iterations.v, w)
    IN IF ~mc.present THEN [error |-> NoError, params |-> params, warnings |-> w]
       ELSE IF mc.iterations # Undefined /\ e # NoError
            THEN [error |-> e, params |-> params, warnings |-> w]
       ELSE IF mc.params.kind # "undefined"
            THEN [error |-> NoError, params |-> mergeParams(withIterations, mc.params),
                  warnings |-> w2]
       ELSE [error |-> NoError, params |-> withIterations, warnings |-> w2]

----------------------------------------------------------------------------
(* Engines.  The floating-point results are kept as what the orchestrator   *)
(* and the structural check read of them: whether the engine raised,        *)
(* whether its numbers are finite, whether the terminal value share is      *)
(* above 80 percent (numerics.tvShareHigh stands for that arithmetic).      *)

\* calculateDCF dereferences drivers[year - 1] for year 1..explicitPeriodYears
\* and the last projection: a TypeError when either is undefined
dcfRaises(inputs) ==
    inputs.explicitPeriodYears > Len(inputs.drivers) \/ inputs.explicitPeriodYears < 1

\* a zero denominator gives Infinity or NaN, never an exception
enterpriseValueFinite(inputs) ==
    /\ inputs.wacc # inputs.terminalGrowthRate
    /\ inputs.wacc # -10000
    /\ inputs.terminalMethod = "roic-driven" => inputs.steadyStateROIC # 0

calculateDCF(inputs, fin, num) ==
    [raised |-> dcfRaises(inputs),
     enterpriseValueFinite |-> enterpriseValueFinite(inputs),
     fairValuePerShareFinite |-> fin.sharesOutstanding <= 0 \/ enterpriseValueFinite(inputs),
     terminalValuePercentAbove80 |-> /\ enterpriseValueFinite(inputs)
                                     /\ inputs.baseRevenue > 0
                                     /\ num.tvShareHigh]

\* afterTaxROIC of the benchmark, through FMP_TO_DAMODARAN, the sector default
\* and the Total Market fallback
getIndustryBenchmarkROIC(industry, sector) ==
    CASE industry \in {"Software - Application", "Software - Infrastructure"} -> 5400
      [] industry = "Internet Content & Information" -> 600
      [] industry \notin {"Software - Application", "Software - Infrastructure",
                          "Internet Content & Information"}
         /\ sector = "Technology" -> 5400
      [] OTHER -> 1900

\* roicError * 10 = min(max(median, 0.05) * 1.6, 0.80) * 10
roicErrorTimes10(benchmarkROIC) == MinOf(MaxOf(benchmarkROIC, 500) * 16, 80000)

\* the warnings of runStructuralCheck that depend on exactly modelled values;
\* they stay inside the StructuralCheck it returns
runStructuralCheck(inputs, result, fin) ==
    LET benchmark == getIndustryBenchmarkROIC(fin.industry, fin.sector)
        lowerExtreme == MinOf(-1000, benchmark - 3000)
        roicWarn == IF fin.historicalROIC * 10 > roicErrorTimes10(benchmark)
                       \/ fin.historicalROIC < lowerExtreme
                    THEN <<Warning("historical_roic_extreme", fin.historicalROIC, 0)>>
                    ELSE << >>
        last == inputs.drivers[Len(inputs.drivers)]
        capexDAReasonable == /\ last.daPercent > 0
                             /\ last.capexPercent * 10 >= 8 * last.daPercent
                             /\ last.capexPercent * 10 <= 15 * last.daPercent
        capexWarn == IF capexDAReasonable THEN << >>
                     ELSE <<Warning("capex_da_ratio", last.capexPercent, last.daPercent)>>
        tvWarn == IF result.terminalValuePercentAbove80
                  THEN <<Warning("terminal_value_share_high", 0, 0)>> ELSE << >>
        spreadWarn == IF inputs.terminalGrowthRate >= inputs.wacc
                      THEN <<Warning("growth_not_below_wacc", inputs.terminalGrowthRate, inputs.wacc)>>
                      ELSE << >>
        gdpWarn == IF inputs.terminalGrowthRate > 400
                   THEN <<Warning("growth_above_gdp", inputs.terminalGrowthRate, 0)>>
                   ELSE << >>
        w == roicWarn \o capexWarn \o tvWarn \o spreadWarn \o gdpWarn
    IN [capexDAReasonable |-> capexDAReasonable,
        hasWarnings |-> Len(w) > 0,
        warnings |-> w]

\* params.growth.means.length is read before the loop (line 305): a TypeError
\* when growth is not an object holding means
monteCarloRaises(params) ==
    ~isObject(params.f.growth) \/ "means" \notin DOMAIN params.f.growth.f

----------------------------------------------------------------------------
(* Monte Carlo engine: one sampling attempt, the feasibility tests, the     *)
(* statistics.  A sampled quantity is a JavaScript number, so it may be     *)
(* NaN; every comparison with NaN is false.  A draw of a standard normal is *)
(* kept as one of a few levels z, the clamped sample as the value it gives. *)

maxAttempts == 25
dynamicBoundK == 3

JsLess(a, b) == IsFiniteNumber(a) /\ IsFiniteNumber(b) /\ a.v < b.v
JsMinus(a, b) == IF IsFiniteNumber(a) /\ IsFiniteNumber(b) THEN Num(a.v - b.v) ELSE NaN

\* Math.min(max, Math.max(min, value)): NaN stays NaN
clampNumber(value, min, max) ==
    IF IsFiniteNumber(value) THEN Num(clamp(value.v, min, max)) ELSE NaN

dynamicBounds(mean, stdDev, hardMin, hardMax) ==
    LET min == MaxOf(hardMin, mean - dynamicBoundK * stdDev)
        max == MinOf(hardMax, mean + dynamicBoundK * stdDev)
        fallback == clamp(mean, hardMin, hardMax)
    IN IF min <= max THEN [min |-> min, max |-> max]
       ELSE [min |-> fallback, max |-> fallback]

\* exp(mu + sigma z): with mean 0, mu is -Infinity and sigma is Infinity, so
\* the result is NaN for z >= 0 and 0 for z < 0; otherwise it is positive
sampleLogNormalFromZ(mean, stdDev) ==
    IF mean = 0 THEN {NaN, Num(0)}
    ELSE IF stdDev = 0 THEN {Num(Abs(mean))}
    ELSE {Num(1), Num(Abs(mean)), Num(100000)}

\* mean + stdDev z for the levels z of zs
sampleNormal(mean, stdDev, zs) == {Num(mean + stdDev * z) : z \in zs}

\* a distribution node {mean, stdDev, min, max} sampled and clamped
sampleClamped(d, raw) ==
    LET b == dynamicBounds(d.f.mean.v, d.f.stdDev.v, d.f.min.v, d.f.max.v)
    IN {clampNumber(x, b.min, b.max) : x \in raw}

\* lines 401-482: the five sampled quantities the feasibility tests read
sampledInputs(params) ==
    LET tm == params.f.terminalModel.f
        W == sampleClamped(params.f.wacc,
                 sampleLogNormalFromZ(params.f.wacc.f.mean.v, params.f.wacc.f.stdDev.v))
        G == sampleClamped(params.f.terminalGrowth,
                 sampleNormal(params.f.terminalGrowth.f.mean.v,
                              params.f.terminalGrowth.f.stdDev.v, {-4, 0, 4}))
        R == sampleClamped(tm.roicDriven.f.steadyStateROIC,
                 sampleNormal(tm.roicDriven.f.steadyStateROIC.f.mean.v,
                              tm.roicDriven.f.steadyStateROIC.f.stdDev.v, {-4, 4}))
        FG == sampleClamped(tm.fade.f.fadeStartGrowth,
                 sampleNormal(tm.fade.f.fadeStartGrowth.f.mean.v,
                              tm.fade.f.fadeStartGrowth.f.stdDev.v, {-4, 4}))
        FR == sampleClamped(tm.fade.f.fadeStartROIC,
                 sampleNormal(tm.fade.f.fadeStartROIC.f.mean.v,
                              tm.fade.f.fadeStartROIC.f.stdDev.v, {-4, 4}))
    IN {[wacc |-> w, terminalGrowthRate |-> g, steadyStateROIC |-> r,
         fadeStartGrowth |-> fg, fadeStartROIC |-> fr] :
            w \in W, g \in G, r \in R, fg \in FG, fr \in FR}

\* lines 484-495: TRUE when none of the `continue` tests fires
sampleAccepted(params, baseInputs, x) ==
    LET tm == params.f.terminalModel.f
        usesROIC == baseInputs.terminalMethod \in {"roic-driven", "fade"}
    IN /\ ~JsLess(JsMinus(x.wacc, x.terminalGrowthRate), Num(tm.minWaccSpread.v))
       /\ usesROIC =>
             /\ ~(x.steadyStateROIC.v <= 0)
             /\ ~(x.terminalGrowthRate.v < 0)
             /\ ~(x.terminalGrowthRate.v * 10000
                     > tm.roicDriven.f.maxReinvestmentRate.v * x.steadyStateROIC.v)
       /\ baseInputs.terminalMethod = "fade" =>
             /\ ~JsLess(x.fadeStartGrowth, x.terminalGrowthRate)
             /\ ~JsLess(x.fadeStartROIC, x.steadyStateROIC)

\* randomStandardNormal calls of one attempt: the correlated vector (and the
\* fallbacks when it is shorter than four), one per later year for growth and
\* for margin, four sampleNormal calls
drawsPerAttempt(params, baseInputs) ==
    MaxOf(Len(params.f.correlation.f.matrix.f), 4)
        + 2 * (baseInputs.explicitPeriodYears - 1) + 4

\* randomStandardNormal called `draws` times from cache state `spare`
\* ("null", "own": filled by this run, "stale": left by an earlier run)
spareAfter(spare, draws) ==
    LET fresh == IF spare = "null" THEN draws ELSE draws - 1
    IN IF draws = 0 THEN spare
       ELSE IF fresh % 2 = 1 THEN "own" ELSE "null"

\* lines 514-523: what calculateDCF gives on an accepted sample; the fair
\* values stand for the arithmetic, a NaN input gives a NaN value
fairValueOutcomes(modifiedInputs, baseInputs, fin) ==
    IF dcfRaises(baseInputs) THEN {[raised |-> TRUE, fairValuePerShare |-> NaN]}
    ELSE {[raised |-> FALSE, fairValuePerShare |-> v] :
            v \in IF fin.sharesOutstanding <= 0 THEN {Num(0)}
                  ELSE IF ~IsFiniteNumber(modifiedInputs.wacc) THEN {NaN}
                  ELSE {Num(100), Num(200), Num(-50), NaN}}

\* variant that keeps every value calculateDCF returns
keepsValue_Always(v) == TRUE

\* isFinite(v) && v > 0
keepsValue(v) == IsFiniteNumber(v) /\ v.v > 0

\* percentile(p) of the sorted values, p in percent, result times 100
percentile(values, p) ==
    LET n == Len(values)
        index == (p * (n - 1)) \div 100
        fraction == (p * (n - 1)) % 100
    IN IF index + 1 < n
       THEN 100 * values[index + 1] + fraction * (values[index + 2] - values[index + 1])
       ELSE 100 * values[index + 1]

RECURSIVE SumOf(_)
SumOf(values) == IF Len(values) = 0 THEN 0 ELSE Head(values) + SumOf(Tail(values))

RECURSIVE SumOfSquares(_)
SumOfSquares(values) ==
    IF Len(values) = 0 THEN 0 ELSE Head(values) * Head(values) + SumOfSquares(Tail(values))

Quotient(num, den) == [num |-> num, den |-> den]

\* lines 556-566: mean as sum / n, stdDev by its square
\* (n sum(v^2) - sum(v)^2) / n^2, currentPricePercentile as 100 countBelow / n
statistics(values, currentPrice) ==
    LET n == Len(values)
        countBelow == Cardinality({k \in 1..n : values[k] < currentPrice})
    IN [mean |-> Quotient(SumOf(values), n),
        stdDev |-> Quotient(n * SumOfSquares(values) - SumOf(values) * SumOf(values), n * n),
        currentPricePercentile |-> Quotient(100 * countBelow, n)]

\* lines 531-544
emptyResult ==
    [valueDistribution |-> << >>, p10 |-> 0, p25 |-> 0, p50 |-> 0, p75 |-> 0, p90 |-> 0,
     mean |-> Quotient(0, 1), stdDev |-> Quotient(0, 1),
     currentPricePercentile |-> Quotient(0, 1)]

\* variant that leaves out values.sort
simulationResult_Unsorted(values, currentPrice) ==
    IF Len(values) = 0 THEN emptyResult
    ELSE [valueDistribution |-> values,
          p10 |-> percentile(values, 10), p25 |-> percentile(values, 25),
          p50 |-> percentile(values, 50), p75 |-> percentile(values, 75),
          p90 |-> percentile(values, 90),
          mean |-> statistics(values, currentPrice).mean,
          stdDev |-> statistics(values, currentPrice).stdDev,
          currentPricePercentile |-> statistics(values, currentPrice).currentPricePercentile]

\* lines 526-578: statistics of the sorted values (percentiles times 100)
simulationResult(values, currentPrice) ==
    LET sorted == SortSeq(values, LAMBDA a, b : a < b)
    IN IF Len(sorted) = 0 THEN emptyResult
       ELSE [valueDistribution |-> sorted,
             p10 |-> percentile(sorted, 10), p25 |-> percentile(sorted, 25),
             p50 |-> percentile(sorted, 50), p75 |-> percentile(sorted, 75),
             p90 |-> percentile(sorted, 90),
             mean |-> statistics(sorted, currentPrice).mean,
             stdDev |-> statistics(sorted, currentPrice).stdDev,
             currentPricePercentile |-> statistics(sorted, currentPrice).currentPricePercentile]

\* the call as runValuation sees it: it raises, or returns the statistics of
\* the values it kept; kept stands for the random draws and the arithmetic
runMonteCarloSimulation(params, inputs, fin, kept) ==
    LET iterationsRun == MaxOf(0, params.f.iterations.v)
        values == IF dcfRaises(inputs) \/ fin.sharesOutstanding <= 0 THEN << >>
                  ELSE SubSeq(kept, 1, MinOf(Len(kept), iterationsRun))
    IN [raised |-> monteCarloRaises(params),
        iterationsRun |-> iterationsRun,
        result |-> simulationResult(values, fin.currentPrice)]

calculateMarketImplied(fin, wacc, inputs) ==
    [wacc |-> wacc, terminalGrowthRate |-> inputs.terminalGrowthRate]

----------------------------------------------------------------------------
(* Requests.  A request is the TEST fixture of the orchestrator's test with *)
(* at most MaxDeviations slots changed; slot k takes one of Alts(k).        *)

MaxDeviations == 2
MaxPatches == 2

TestFinancialData ==
    [symbol |-> "TEST", beta |-> Num(110), marketCap |-> 3000, totalDebt |-> 300,
     interestExpense |-> 15, effectiveTaxRate |-> Num(2100),
     latestAnnualRevenue |-> 950, ttmRevenue |-> 1000,
     latestAnnualNetIncome |-> 150, ttmNetIncome |-> 160,
     grossMargin |-> 4000, operatingMargin |-> 2000,
     historicalDAPercent |-> 300, historicalCapexPercent |-> 400,
     historicalWCChangePercent |-> 100, historicalROIC |-> 1500,
     analystEstimates |-> <<1080, 1150>>, sharesOutstanding |-> 2000,
     currentPrice |-> 150,
     industry |-> "Software - Application", sector |-> "Technology"]

TestWaccInputs == [riskFreeRate |-> 450, marketRiskPremium |-> 500, countryRiskPremium |-> 0]

FinancialDataAlts ==
    <<[TestFinancialData EXCEPT !.latestAnnualRevenue = 0, !.ttmRevenue = 0],
      [TestFinancialData EXCEPT !.sharesOutstanding = 0],
      [TestFinancialData EXCEPT !.historicalROIC = 0],
      [TestFinancialData EXCEPT !.beta = NaN],
      [TestFinancialData EXCEPT !.beta = Num(10)],
      [TestFinancialData EXCEPT !.historicalROIC = 9000],
      [TestFinancialData EXCEPT !.analystEstimates = << >>],
      [TestFinancialData EXCEPT !.analystEstimates = <<960, 970>>],
      [TestFinancialData EXCEPT !.industry = "Internet Content & Information"]>>

\* tvShareHigh: the terminal value's share of enterprise value exceeds 80
\* percent; kept[m]: the fair values the simulation of method m keeps when it
\* runs long enough, in the order they are pushed
TestNumerics ==
    [tvShareHigh |-> FALSE, kept |-> <<<<200, 100>>, <<120>>, << >>>>]

NumericsAlts ==
    <<[TestNumerics EXCEPT !.tvShareHigh = TRUE],
      [TestNumerics EXCEPT !.kept = <<<< >>, <<300, 100, 200>>, <<150, 150>>>>]>>

Entry(key, value) == [key |-> key, value |-> value]

PatchAlts ==
    <<[year |-> 2, entries |-> <<Entry("operatingMargin", Num(2500))>>],
      [year |-> 6, entries |-> <<Entry("revenueGrowth", NaN)>>],
      [year |-> 3, entries |-> <<Entry("taxRate", NaN)>>],
      [year |-> 5, entries |-> <<Entry("year", Num(5)), Entry("capexPercent", Num(900)),
                                 Entry("daPercent", Undefined)>>],
      [year |-> 4, entries |-> <<Entry("note", Str), Entry("grossMargin", Infinity)>>]>>

ParamsAlts ==
    <<Obj([iterations |-> Leaf(50000)]),
      Obj([iterations |-> Leaf(0), wacc |-> Obj([max |-> Leaf(2500)])]),
      Obj([growth |-> Obj([means |-> Arr(<<500>>)]),
           terminalModel |-> Obj([minWaccSpread |-> Leaf(100)])]),
      Obj([growth |-> Leaf(5)])>>

\* slots 1..9 are the dcf number fields in the order of numberFields
SlotDcfEmpty == Len(numberFields) + 1
SlotIterations == Len(numberFields) + 2
SlotParams == Len(numberFields) + 3
SlotFinancialData == Len(numberFields) + 4
SlotNumerics == Len(numberFields) + 5
SlotIncludeDistribution == Len(numberFields) + 6
SlotPatch(i) == Len(numberFields) + 6 + i
Slots == 1..SlotPatch(MaxPatches)

Alts(k) ==
    CASE k = 1 -> <<NaN, Num(100), Num(800), Num(1100), Num(3500)>>
      [] k = 2 -> <<Infinity, Num(780), Num(1000), Num(5000), Num(-900)>>
      [] k = 3 -> <<NaN, Num(0), Num(2500)>>
      [] k = 4 -> <<Str, Num(25), Num(400)>>
      [] k = 5 -> <<NaN, Num(100), Num(6000)>>
      [] k = 6 -> <<Infinity, Num(500), Num(3000)>>
      [] k = 7 -> <<NaN, Num(0), Num(30), Num(24), Num(90)>>
      [] k = 8 -> <<NaN, Num(-5), Num(0), Num(2000)>>
      [] k = 9 -> <<Infinity, Num(-70)>>
      [] k = SlotDcfEmpty -> <<TRUE>>
      [] k = SlotIterations -> <<NaN, Num(0), Num(25000), Num(25004), Num(200000), Num(9999990)>>
      [] k = SlotParams -> ParamsAlts
      [] k = SlotFinancialData -> FinancialDataAlts
      [] k = SlotNumerics -> NumericsAlts
      [] k = SlotIncludeDistribution -> <<TRUE>>
      [] OTHER -> PatchAlts

MaxAlts == CHOOSE n \in 1..20 : /\ \A k \in Slots : Len(Alts(k)) <= n
                                /\ \E k \in Slots : Len(Alts(k)) = n

Deviations == {S \in SUBSET Slots : Cardinality(S) <= MaxDeviations}
Picks(S) == {p \in [S -> 1..MaxAlts] : \A k \in S : p[k] <= Len(Alts(k))}

Chosen(S, p, k, default) == IF k \in S THEN Alts(k)[p[k]] ELSE default

RECURSIVE ChosenPatches(_, _, _)
ChosenPatches(S, p, i) ==
    IF i > MaxPatches THEN << >>
    ELSE (IF SlotPatch(i) \in S THEN <<Alts(SlotPatch(i))[p[SlotPatch(i)]]>> ELSE << >>)
         \o ChosenPatches(S, p, i + 1)

RequestOverrides(S, p) ==
    [dcf |-> [present |-> \E k \in S : k <= SlotDcfEmpty \/ k >= SlotPatch(1),
              fields |-> [f \in {numberFields[i] : i \in 1..Len(numberFields)} |->
                            Chosen(S, p, CHOOSE i \in 1..Len(numberFields) : numberFields[i] = f,
                                   Undefined)],
              drivers |-> ChosenPatches(S, p, 1)],
     monteCarlo |-> [present |-> SlotIterations \in S \/ SlotParams \in S,
                     iterations |-> Chosen(S, p, SlotIterations, Undefined),
                     params |-> Chosen(S, p, SlotParams, NoTree)]]

----------------------------------------------------------------------------
(* runValuation, statement by statement *)

\* variant that returns the empty result when the distribution is not wanted
maybeStripDistribution_Empty(result, include) ==
    IF include THEN result ELSE emptyResult

\* lines 281-289
maybeStripDistribution(result, include) ==
    IF include THEN result ELSE [result EXCEPT !.valueDistribution = << >>]

Unset == [unset |-> TRUE]

methods == <<[key |-> "perpetuity", terminalMethod |-> "perpetuity"],
             [key |-> "roicDriven", terminalMethod |-> "roic-driven"],
             [key |-> "fade", terminalMethod |-> "fade"]>>

At(at, m) == [at |-> at, m |-> m]
Call(fn, m, inputs) == [fn |-> fn, m |-> m, inputs |-> inputs]
Raised(e) == [kind |-> "error", error |-> e]
TypeError == HttpError("TypeError", "", 0, "")

\* nothing outside runValuation has been started
AppIdle == store = Unset /\ loads = << >> /\ browser = Unset

OthersIdle == engine = Unset /\ http = Unset /\ AppIdle

Init ==
    /\ \E S \in Deviations : \E p \in Picks(S) :
          /\ financialData = Chosen(S, p, SlotFinancialData, TestFinancialData)
          /\ overrides = RequestOverrides(S, p)
          /\ numerics = Chosen(S, p, SlotNumerics, TestNumerics)
          /\ includeDistribution = Chosen(S, p, SlotIncludeDistribution, FALSE)
    /\ waccInputs = TestWaccInputs
    /\ pc = At("createPrefilledDCFInputs", 0)
    /\ frame = Unset
    /\ prefilled = Unset
    /\ effectiveDcfInputs = Unset
    /\ warnings = << >>
    /\ results = [k \in {} |-> Unset]
    /\ monteCarloByMethod = [k \in {} |-> Unset]
    /\ layerC = Unset
    /\ outcome = [kind |-> "none", error |-> NoError]
    /\ calls = << >>
    /\ sim = Unset
    /\ spareNormal = "null"
    /\ OthersIdle

request == <<financialData, waccInputs, overrides, includeDistribution, numerics>>

\* line 301-302
Prefill ==
    /\ pc.at = "createPrefilledDCFInputs"
    /\ prefilled' = createPrefilledDCFInputs(financialData.symbol, financialData, waccInputs)
    /\ warnings' = prefilled'.audit.warnings
    /\ calls' = Append(calls, Call("createPrefilledDCFInputs", 0, Unset))
    /\ pc' = At("applyDcfOverrides", 0)
    /\ UNCHANGED <<request, simVars, otherVars, frame, effectiveDcfInputs, results, monteCarloByMethod,
                   layerC, outcome>>

\* line 304
ApplyDcfOverrides ==
    /\ pc.at = "applyDcfOverrides"
    /\ \E r \in {applyDcfOverrides(prefilled.dcfInputs, overrides.dcf, warnings)} :
          /\ IF r.error # NoError
             THEN /\ outcome' = Raised(r.error)
                  /\ pc' = At("failed", 0)
                  /\ UNCHANGED <<effectiveDcfInputs, warnings>>
             ELSE /\ effectiveDcfInputs' = r.inputs
                  /\ warnings' = r.warnings
                  /\ pc' = At("calculateDCF", 1)
                  /\ UNCHANGED outcome
          /\ prefilled' = [prefilled EXCEPT !.dcfInputs = r.baseInputs]
    /\ calls' = Append(calls, Call("applyDcfOverrides", 0, prefilled.dcfInputs))
    /\ UNCHANGED <<request, simVars, otherVars, frame, results, monteCarloByMethod, layerC>>

\* lines 325-330
CalculateDCF ==
    /\ pc.at = "calculateDCF"
    /\ LET methodInputs == [effectiveDcfInputs EXCEPT
                              !.terminalMethod = methods[pc.m].terminalMethod]
           dcf == calculateDCF(methodInputs, financialData, numerics)
       IN /\ calls' = Append(calls, Call("calculateDCF", pc.m, methodInputs))
          /\ IF dcf.raised
             THEN /\ outcome' = Raised(TypeError)
                  /\ pc' = At("failed", pc.m)
                  /\ UNCHANGED frame
             ELSE /\ frame' = [methodInputs |-> methodInputs, dcf |-> dcf, layerB |-> Unset]
                  /\ pc' = At("runStructuralCheck", pc.m)
                  /\ UNCHANGED outcome
    /\ UNCHANGED <<request, simVars, otherVars, prefilled, effectiveDcfInputs, warnings, results,
                   monteCarloByMethod, layerC>>

\* line 331
RunStructuralCheck ==
    /\ pc.at = "runStructuralCheck"
    /\ frame' = [frame EXCEPT !.layerB =
                    runStructuralCheck(frame.methodInputs, frame.dcf, financialData)]
    /\ calls' = Append(calls, Call("runStructuralCheck", pc.m, frame.methodInputs))
    /\ pc' = At("monteCarlo", pc.m)
    /\ UNCHANGED <<request, simVars, otherVars, prefilled, effectiveDcfInputs, warnings, results,
                   monteCarloByMethod, layerC, outcome>>

\* lines 333-342
MonteCarlo ==
    /\ pc.at = "monteCarlo"
    /\ \E defaultMcParams \in {createDefaultMonteCarloParams(frame.methodInputs, financialData)} :
       \E r \in {applyMonteCarloOverrides(defaultMcParams, overrides.monteCarlo, warnings)} :
       \E monteCarloResult \in {runMonteCarloSimulation(r.params, frame.methodInputs,
                                                       financialData, numerics.kept[pc.m])} :
       LET key == methods[pc.m].key
           before == calls \o <<Call("createDefaultMonteCarloParams", pc.m, frame.methodInputs),
                                Call("applyMonteCarloOverrides", pc.m, frame.methodInputs)>>
       IN IF r.error # NoError
          THEN /\ outcome' = Raised(r.error)
               /\ pc' = At("failed", pc.m)
               /\ calls' = before
               /\ UNCHANGED <<warnings, results, monteCarloByMethod>>
          ELSE IF monteCarloResult.raised
          THEN /\ outcome' = Raised(TypeError)
               /\ pc' = At("failed", pc.m)
               /\ warnings' = r.warnings
               /\ calls' = Append(before, Call("runMonteCarloSimulation", pc.m, frame.methodInputs))
               /\ UNCHANGED <<results, monteCarloByMethod>>
          ELSE /\ warnings' = r.warnings
               /\ monteCarloByMethod' = monteCarloByMethod @@ (key :> r.params)
               /\ results' = results @@ (key :> [dcf |-> frame.dcf, layerB |-> frame.layerB,
                                                 monteCarlo |-> maybeStripDistribution(
                                                     monteCarloResult.result,
                                                     includeDistribution)])
               /\ calls' = Append(before, Call("runMonteCarloSimulation", pc.m, frame.methodInputs))
               /\ pc' = IF pc.m < Len(methods) THEN At("calculateDCF", pc.m + 1)
                        ELSE At("calculateMarketImplied", 0)
               /\ UNCHANGED outcome
    /\ UNCHANGED <<request, simVars, otherVars, frame, prefilled, effectiveDcfInputs, layerC>>

\* variant in which Layer C is computed as soon as the second method is done
CalculateMarketImplied_Early ==
    /\ pc = At("calculateDCF", Len(methods))
    /\ layerC' = calculateMarketImplied(financialData, effectiveDcfInputs.wacc, effectiveDcfInputs)
    /\ calls' = Append(calls, Call("calculateMarketImplied", 0, effectiveDcfInputs))
    /\ outcome' = [kind |-> "response", error |-> NoError]
    /\ pc' = At("done", 0)
    /\ UNCHANGED <<request, simVars, otherVars, frame, prefilled, effectiveDcfInputs, warnings, results,
                   monteCarloByMethod>>

\* lines 345-365
CalculateMarketImplied ==
    /\ pc.at = "calculateMarketImplied"
    /\ layerC' = calculateMarketImplied(financialData, effectiveDcfInputs.wacc, effectiveDcfInputs)
    /\ calls' = Append(calls, Call("calculateMarketImplied", 0, effectiveDcfInputs))
    /\ outcome' = [kind |-> "response", error |-> NoError]
    /\ pc' = At("done", 0)
    /\ UNCHANGED <<request, simVars, otherVars, frame, prefilled, effectiveDcfInputs, warnings, results,
                   monteCarloByMethod>>

Next ==
    \/ Prefill
    \/ ApplyDcfOverrides
    \/ CalculateDCF
    \/ RunStructuralCheck
    \/ MonteCarlo
    \/ CalculateMarketImplied

Spec == Init /\ [][Next]_vars

\* the AgentValuationResponse, once runValuation has returned
Returned == pc.at = "done"
Failed == pc.at = "failed"

Terminal == Returned \/ Failed

\* a run that has not returned or raised can take its next step
Progress == ~Terminal => ENABLED Next

EvaluationSites == {"calculateDCF", "runStructuralCheck", "calculateMarketImplied"}

Present(value) == value # Undefined

\* what the request asks for, per slot of the override tree
RequestedFields == overrides.dcf.fields
RequestedPatches == overrides.dcf.drivers
RequestedIterations == overrides.monteCarlo.iterations

NonFiniteFieldErrors ==
    {HttpError("invalid_override", f, 0, "") :
        f \in {g \in DOMAIN RequestedFields :
                 Present(RequestedFields[g]) /\ ~IsFiniteNumber(RequestedFields[g])}}

NonFinitePatchErrors(years) ==
    {HttpError("invalid_override", "drivers", RequestedPatches[ij[1]].year,
               RequestedPatches[ij[1]].entries[ij[2]].key) :
        ij \in {xy \in (1..Len(RequestedPatches)) \X (1..3) :
                  /\ xy[2] <= Len(RequestedPatches[xy[1]].entries)
                  /\ RequestedPatches[xy[1]].year \in years
                  /\ RequestedPatches[xy[1]].entries[xy[2]].key # "year"
                  /\ Present(RequestedPatches[xy[1]].entries[xy[2]].value)
                  /\ ~IsFiniteNumber(RequestedPatches[xy[1]].entries[xy[2]].value)}}

NonFiniteIterationsErrors ==
    IF Present(RequestedIterations) /\ ~IsFiniteNumber(RequestedIterations)
    THEN {HttpError("invalid_override", "monteCarlo.iterations", 0, "")}
    ELSE {}

AnyYear == 0..9
DriverYears == 1..5

NonFiniteOverrides(years) ==
    NonFiniteFieldErrors \cup NonFinitePatchErrors(years) \cup NonFiniteIterationsErrors

----------------------------------------------------------------------------
(* Claims *)

\* C1: in every run that returns a response, the inputs of every evaluation
\* site (calculateDCF, runStructuralCheck, calculateMarketImplied) satisfy
\* wacc - terminalGrowthRate >= 0.005.
C1_SpreadAtEverySite ==
    Returned =>
        \A i \in 1..Len(calls) :
            calls[i].fn \in EvaluationSites =>
                calls[i].inputs.wacc - calls[i].inputs.terminalGrowthRate
                    >= MIN_WACC_TERMINAL_SPREAD

\* C2 as stated: any recognized override that is present and not a finite
\* number (whatever the year of its driver patch) makes runValuation fail
\* with invalid_override naming the field, and no response is produced.
C2_AnyNonFiniteOverrideFails ==
    (Terminal /\ NonFiniteOverrides(AnyYear) # {}) =>
        Failed /\ outcome.error \in NonFiniteOverrides(AnyYear)

\* C2 amended: a non-finite dcf number field, a non-finite field of a driver
\* patch whose year addresses an existing driver, or a non-finite
\* monteCarlo.iterations makes runValuation fail with invalid_override naming
\* a non-finite field of the request; no response is produced.
C2_NonFiniteOverrideFails ==
    /\ Progress
    /\ (Terminal /\ NonFiniteOverrides(DriverYears) # {}) =>
            /\ Failed
            /\ outcome.kind = "error"
            /\ outcome.error \in NonFiniteOverrides(DriverYears)

C2_Witness ==
    /\ Failed
    /\ outcome.error = HttpError("invalid_override", "drivers", 3, "taxRate")

\* the explicitPeriodYears override as requested (tenths of a year)
RequestedExplicitPeriod == RequestedFields["explicitPeriodYears"]

ExplicitPeriodOutOfRange ==
    /\ overrides.dcf.present
    /\ IsFiniteNumber(RequestedExplicitPeriod)
    /\ \/ RequestedExplicitPeriod.v < 10
       \/ RequestedExplicitPeriod.v > 10 * Len(prefilled.dcfInputs.drivers)

\* C3: a finite explicitPeriodYears override outside [1, drivers.length]
\* makes runValuation fail with invalid_override instead of returning.
C3_ExplicitPeriodOutOfRangeFails ==
    (Terminal /\ ExplicitPeriodOutOfRange) =>
        /\ Failed
        /\ outcome.error.code = "invalid_override"

StoredIterations(key) == monteCarloByMethod[key].f.iterations

MethodKeys == {methods[m].key : m \in 1..Len(methods)}

\* C4: in every response each monteCarloByMethod.*.iterations lies in
\* [1, 20000], whatever monteCarlo.iterations or monteCarlo.params asked for.
C4_IterationsWithinBounds ==
    Returned =>
        \A key \in MethodKeys :
            /\ StoredIterations(key).kind = "number"
            /\ StoredIterations(key).v >= 1
            /\ StoredIterations(key).v <= MAX_MONTE_CARLO_ITERATIONS

IterationsRequested ==
    overrides.monteCarlo.present /\ IsFiniteNumber(RequestedIterations)

\* the requested count is not one the bounds [1, 20000] leave alone
IterationsOutsideBounds ==
    /\ IterationsRequested
    /\ \/ RequestedIterations.v < 10
       \/ RequestedIterations.v > 10 * MAX_MONTE_CARLO_ITERATIONS

\* C5: whenever the requested iteration count is clamped, the response
\* carries a warning naming the requested and the stored value, and a request
\* above 20000 is stored as exactly 20000.
C5_ClampedIterationsWarned ==
    (Returned /\ IterationsOutsideBounds) =>
        \A key \in MethodKeys :
            /\ \E i \in 1..Len(warnings) :
                   /\ warnings[i].kind = "iterations_clamped"
                   /\ warnings[i].a = RequestedIterations.v
                   /\ warnings[i].b = StoredIterations(key).v
            /\ RequestedIterations.v > 10 * MAX_MONTE_CARLO_ITERATIONS =>
                   StoredIterations(key).v = MAX_MONTE_CARLO_ITERATIONS

\* wacc and terminalGrowthRate once the overrides are applied, before the
\* sanity adjustments: the override clamped to its range, else the prefilled value
OverriddenWacc ==
    IF overrides.dcf.present /\ Present(RequestedFields["wacc"])
    THEN clamp(RequestedFields["wacc"].v, 200, 3000)
    ELSE prefilled.dcfInputs.wacc

OverriddenTerminalGrowthRate ==
    IF overrides.dcf.present /\ Present(RequestedFields["terminalGrowthRate"])
    THEN clamp(RequestedFields["terminalGrowthRate"].v, -500, 1500)
    ELSE prefilled.dcfInputs.terminalGrowthRate

OverridesApplied == "wacc" \in DOMAIN effectiveDcfInputs

FadeInputsConsistent(inputs) ==
    /\ inputs.fadeStartGrowth >= inputs.terminalGrowthRate
    /\ inputs.fadeStartROIC >= inputs.steadyStateROIC

\* C7: every evaluation of the fade method sees fadeStartGrowth >=
\* terminalGrowthRate and fadeStartROIC >= steadyStateROIC, and a
\* fadeStartGrowth that was below the terminal growth rate is raised to it
\* with a warning.
C7_FadeStartNotBelowTerminal ==
    \A i \in 1..Len(calls) :
        (calls[i].fn \in {"calculateDCF", "runStructuralCheck", "runMonteCarloSimulation"}
         /\ calls[i].inputs.terminalMethod = "fade") =>
            FadeInputsConsistent(calls[i].inputs)

\* C8: runValuation raises only for a non-finite override or an
\* explicitPeriodYears out of range; every other request, degenerate numbers
\* included, runs to a response.
C8_RaisesOnlyForInvalidOverride ==
    /\ Progress
    /\ Failed =>
          /\ outcome.error.code = "invalid_override"
          /\ NonFiniteOverrides(AnyYear) # {} \/ ExplicitPeriodOutOfRange

\* the steps of one method of the loop, in the order of the loop body
MethodSteps(m) ==
    <<[fn |-> "calculateDCF", m |-> m],
      [fn |-> "runStructuralCheck", m |-> m],
      [fn |-> "createDefaultMonteCarloParams", m |-> m],
      [fn |-> "applyMonteCarloOverrides", m |-> m],
      [fn |-> "runMonteCarloSimulation", m |-> m]>>

PipelineOrder ==
    <<[fn |-> "createPrefilledDCFInputs", m |-> 0], [fn |-> "applyDcfOverrides", m |-> 0]>>
    \o MethodSteps(1) \o MethodSteps(2) \o MethodSteps(3)
    \o <<[fn |-> "calculateMarketImplied", m |-> 0]>>

\* C9: prefill runs first, then override application, then for each method
\* DCF before Layer B before Monte Carlo, and Layer C last, exactly once, with
\* the wacc of the effective inputs.
C9_PipelineOrder ==
    /\ Len(calls) <= Len(PipelineOrder)
    /\ \A i \in 1..Len(calls) :
           /\ calls[i].fn = PipelineOrder[i].fn
           /\ calls[i].m = PipelineOrder[i].m
    /\ Returned =>
           /\ Len(calls) = Len(PipelineOrder)
           /\ Cardinality({i \in 1..Len(calls) : calls[i].fn = "calculateMarketImplied"}) = 1
           /\ calls[Len(calls)].inputs = effectiveDcfInputs
           /\ layerC.wacc = effectiveDcfInputs.wacc
           /\ \A m \in 1..Len(methods) :
                  calls[2 + 5 * (m - 1) + 1].inputs
                      = [effectiveDcfInputs EXCEPT !.terminalMethod = methods[m].terminalMethod]

C9_Witness ==
    /\ Returned
    /\ Len(calls) = Len(PipelineOrder)
    /\ overrides.dcf.present
    /\ overrides.monteCarlo.present
    /\ effectiveDcfInputs.wacc # prefilled.dcfInputs.wacc
    /\ layerC.wacc = effectiveDcfInputs.wacc

HasWarning(kind) == \E i \in 1..Len(warnings) : warnings[i].kind = kind

LayerBFound(kind) ==
    \E key \in MethodKeys :
        \E i \in 1..Len(results[key].layerB.warnings) :
            results[key].layerB.warnings[i].kind = kind

OverriddenFadeStartGrowth ==
    IF overrides.dcf.present /\ Present(RequestedFields["fadeStartGrowth"])
    THEN clamp(RequestedFields["fadeStartGrowth"].v, -500, 5000)
    ELSE prefilled.dcfInputs.fadeStartGrowth

\* C10: each soft problem met while serving a request (terminal growth >=
\* wacc, fade-start growth below terminal growth, clamped iterations,
\* historical ROIC far from the industry norm, terminal value share above 80
\* percent) leaves an entry in the warnings list of the response.
C10_SoftProblemsWarned ==
    Returned =>
        /\ OverriddenTerminalGrowthRate >= OverriddenWacc =>
               HasWarning("terminalGrowthRate_reduced")
        /\ OverriddenFadeStartGrowth < effectiveDcfInputs.terminalGrowthRate =>
               HasWarning("fadeStartGrowth_raised")
        /\ IterationsOutsideBounds => HasWarning("iterations_clamped")
        /\ LayerBFound("historical_roic_extreme") => HasWarning("historical_roic_extreme")
        /\ LayerBFound("terminal_value_share_high") =>
               HasWarning("terminal_value_share_high")

----------------------------------------------------------------------------
(* runMonteCarloSimulation, step by step.  The simulation is called with    *)
(* the parameters the orchestrator builds for the TEST fixture.  A later    *)
(* call (the next request) finds the Box-Muller cache as the earlier call   *)
(* left it.                                                                 *)

MaxIterations == 2

\* monteCarlo.params overrides of the simulated request
SimParamsAlts ==
    <<NoTree,
      Obj([wacc |-> Obj([mean |-> Leaf(0)])]),
      Obj([correlation |-> Obj([matrix |-> Arr(<<1, 2, 3, 4, 5>>)])]),
      Obj([terminalModel |-> Obj([minWaccSpread |-> Leaf(5000)])]),
      Obj([growth |-> Leaf(5)])>>

SimBaseInputs(m) ==
    [createPrefilledDCFInputs("TEST", TestFinancialData, TestWaccInputs).dcfInputs
        EXCEPT !.terminalMethod = methods[m].terminalMethod]

SimParams(m, n, patch) ==
    applyMonteCarloOverrides(
        createDefaultMonteCarloParams(SimBaseInputs(m), TestFinancialData),
        [present |-> TRUE, iterations |-> Num(10 * n), params |-> patch],
        << >>).params

\* the locals of runMonteCarloSimulation at its first statement
SimStart(params, baseInputs) ==
    [at |-> "entry", params |-> params, baseInputs |-> baseInputs,
     i |-> 0, attempt |-> 0, modifiedInputs |-> Unset, values |-> << >>,
     evaluated |-> 0, skipped |-> 0, drewStale |-> FALSE, result |-> Unset]

InitMC ==
    /\ \E m \in 1..Len(methods) : \E n \in 1..MaxIterations :
       \E a \in 1..Len(SimParamsAlts) :
          sim = SimStart(SimParams(m, n, SimParamsAlts[a]), SimBaseInputs(m))
    /\ spareNormal = "null"
    /\ financialData = TestFinancialData
    /\ waccInputs = TestWaccInputs
    /\ overrides = RequestOverrides({}, << >>)
    /\ numerics = TestNumerics
    /\ includeDistribution = FALSE
    /\ pc = At("runMonteCarloSimulation", 0)
    /\ frame = Unset
    /\ prefilled = Unset
    /\ effectiveDcfInputs = Unset
    /\ warnings = << >>
    /\ results = [k \in {} |-> Unset]
    /\ monteCarloByMethod = [k \in {} |-> Unset]
    /\ layerC = Unset
    /\ outcome = [kind |-> "none", error |-> NoError]
    /\ calls = << >>
    /\ OthersIdle

\* the state of one runValuation call
runVars ==
    <<financialData, waccInputs, overrides, includeDistribution, numerics, pc, frame,
      prefilled, effectiveDcfInputs, warnings, results, monteCarloByMethod, layerC, outcome, calls>>

orchestratorVars == <<runVars, otherVars>>

\* lines 303-322: the statements before the loop
SimEnter ==
    /\ sim.at = "entry"
    /\ sim' = [sim EXCEPT !.at = IF monteCarloRaises(sim.params) THEN "raised" ELSE "loop"]
    /\ UNCHANGED <<spareNormal, orchestratorVars>>

\* variant whose while loop has no attempt limit
SimAttempt_Unlimited ==
    /\ sim.at = "loop"
    /\ sim.i < sim.params.f.iterations.v
    /\ sim.modifiedInputs = Unset
    /\ \E x \in sampledInputs(sim.params) :
          sim' = [sim EXCEPT
                    !.attempt = @ + 1,
                    !.drewStale = @ \/ spareNormal = "stale",
                    !.modifiedInputs =
                        IF sampleAccepted(sim.params, sim.baseInputs, x) THEN x ELSE Unset]
    /\ spareNormal' = spareAfter(spareNormal, drawsPerAttempt(sim.params, sim.baseInputs))
    /\ UNCHANGED orchestratorVars

\* lines 328-511: one pass of the while loop
SimAttempt ==
    /\ sim.at = "loop"
    /\ sim.i < sim.params.f.iterations.v
    /\ sim.attempt < maxAttempts
    /\ sim.modifiedInputs = Unset
    /\ \E x \in sampledInputs(sim.params) :
          sim' = [sim EXCEPT
                    !.attempt = @ + 1,
                    !.drewStale = @ \/ spareNormal = "stale",
                    !.modifiedInputs =
                        IF sampleAccepted(sim.params, sim.baseInputs, x) THEN x ELSE Unset]
    /\ spareNormal' = spareAfter(spareNormal, drawsPerAttempt(sim.params, sim.baseInputs))
    /\ UNCHANGED orchestratorVars

\* lines 513-524: the try block and the end of the iteration
SimEvaluate ==
    /\ sim.at = "loop"
    /\ sim.i < sim.params.f.iterations.v
    /\ sim.modifiedInputs # Unset \/ sim.attempt >= maxAttempts
    /\ IF sim.modifiedInputs = Unset
       THEN sim' = [sim EXCEPT !.i = @ + 1, !.attempt = 0, !.skipped = @ + 1]
       ELSE \E o \in fairValueOutcomes(sim.modifiedInputs, sim.baseInputs, financialData) :
               sim' = [sim EXCEPT
                         !.i = @ + 1, !.attempt = 0, !.modifiedInputs = Unset,
                         !.evaluated = @ + 1,
                         !.values = IF ~o.raised /\ keepsValue(o.fairValuePerShare)
                                    THEN Append(@, o.fairValuePerShare.v) ELSE @]
    /\ UNCHANGED <<spareNormal, orchestratorVars>>

\* lines 526-578: sort, statistics, return
SimFinish ==
    /\ sim.at = "loop"
    /\ sim.i >= sim.params.f.iterations.v
    /\ sim' = [sim EXCEPT !.at = "returned", !.result = simulationResult(sim.values, financialData.currentPrice)]
    /\ spareNormal' = IF spareNormal = "own" THEN "stale" ELSE spareNormal
    /\ UNCHANGED orchestratorVars

\* the next call of runMonteCarloSimulation in the same process
SimAgain ==
    /\ sim.at = "returned"
    /\ sim' = SimStart(sim.params, sim.baseInputs)
    /\ UNCHANGED <<spareNormal, orchestratorVars>>

NextMC ==
    \/ SimEnter
    \/ SimAttempt
    \/ SimEvaluate
    \/ SimFinish
    \/ SimAgain

SpecMC == InitMC /\ [][NextMC]_vars

Simulating == sim # Unset

\* the sample the DCF engine is about to be evaluated on
HasSample == Simulating /\ sim.modifiedInputs # Unset

AtLeast(a, b) == IsFiniteNumber(a) /\ IsFiniteNumber(b) /\ a.v >= b.v

\* C11: every sample on which the simulation evaluates the DCF engine has
\* wacc - g >= minWaccSpread; for roic-driven and fade also steadyStateROIC > 0
\* and g / steadyStateROIC in [0, maxReinvestmentRate]; for fade also
\* fadeStartGrowth >= g and fadeStartROIC >= steadyStateROIC.
C11_EvaluatedSamplesFeasible ==
    HasSample =>
        LET x == sim.modifiedInputs
            tm == sim.params.f.terminalModel.f
            method == sim.baseInputs.terminalMethod
        IN /\ AtLeast(JsMinus(x.wacc, x.terminalGrowthRate), Num(tm.minWaccSpread.v))
           /\ method \in {"roic-driven", "fade"} =>
                 /\ x.steadyStateROIC.v > 0
                 /\ x.terminalGrowthRate.v >= 0
                 /\ x.terminalGrowthRate.v * 10000
                       <= tm.roicDriven.f.maxReinvestmentRate.v * x.steadyStateROIC.v
           /\ method = "fade" =>
                 /\ AtLeast(x.fadeStartGrowth, x.terminalGrowthRate)
                 /\ AtLeast(x.fadeStartROIC, x.steadyStateROIC)

SimReturned == Simulating /\ sim.at = "returned"

AllPositive(values) == \A k \in 1..Len(values) : values[k] > 0

\* C12: every element of a result's valueDistribution (and of the values
\* collected so far) is a finite, strictly positive number.
C12_DistributionPositive ==
    Simulating =>
        /\ AllPositive(sim.values)
        /\ sim.at = "returned" => AllPositive(sim.result.valueDistribution)

\* a returned run that kept one value and dropped the other iteration's
C12_Witness ==
    /\ SimReturned
    /\ sim.params.f.iterations.v = MaxIterations
    /\ sim.skipped = 0
    /\ Len(sim.result.valueDistribution) = MaxIterations - 1

\* C13: runMonteCarloSimulation never fails as a whole: no call ends by
\* raising, and a run that kept no sample returns the all-zero result.
C13_NeverFailsAsAWhole ==
    Simulating =>
        /\ sim.at # "raised"
        /\ (sim.at = "returned" /\ Len(sim.values) = 0) =>
              sim.result = emptyResult

\* attempts and iterations a run at s can still make
AttemptsLeft(s) ==
    (s.params.f.iterations.v - s.i) * (maxAttempts + 1) + (maxAttempts - s.attempt)

Elements(values) == {values[k] : k \in 1..Len(values)}
SeqMin(values) == CHOOSE x \in Elements(values) : \A y \in Elements(values) : x <= y
SeqMax(values) == CHOOSE x \in Elements(values) : \A y \in Elements(values) : y <= x

\* C15: in a non-empty result the percentiles are ordered and lie between the
\* smallest and the largest sample (percentiles are kept times 100).
C15_PercentilesOrdered ==
    (SimReturned /\ Len(sim.values) > 0) =>
        /\ 100 * SeqMin(sim.values) <= sim.result.p10
        /\ sim.result.p10 <= sim.result.p25
        /\ sim.result.p25 <= sim.result.p50
        /\ sim.result.p50 <= sim.result.p75
        /\ sim.result.p75 <= sim.result.p90
        /\ sim.result.p90 <= 100 * SeqMax(sim.values)

\* a returned run whose values were collected in descending order
C15_Witness ==
    /\ SimReturned
    /\ Len(sim.values) = MaxIterations
    /\ sim.values[1] > sim.values[Len(sim.values)]
    /\ sim.result.p10 < sim.result.p90

----------------------------------------------------------------------------
(* Override fidelity *)

\* fields whose request value is kept in tenths and whose stored value is whole
YearFields == {"fadeYears", "explicitPeriodYears"}

\* the allowed range of a dcf number field, in the unit of the request
InAllowedRange(field, v) ==
    CASE field = "wacc" -> 200 <= v /\ v <= 3000
      [] field = "terminalGrowthRate" -> -500 <= v /\ v <= 1500
      [] field = "steadyStateROIC" -> 10 <= v /\ v <= 10000
      [] field = "fadeYears" -> 10 <= v /\ v <= 300
      [] field = "fadeStartGrowth" -> -500 <= v /\ v <= 5000
      [] field = "fadeStartROIC" -> 10 <= v /\ v <= 10000
      [] field = "explicitPeriodYears" -> 10 <= v /\ v <= 50
      [] field = "baseRevenue" -> 0 <= v
      [] field = "baseNetIncome" -> TRUE

\* the dcf number fields overridden by a finite value inside the allowed range
FaithfulFields ==
    {f \in DOMAIN RequestedFields :
        /\ overrides.dcf.present
        /\ IsFiniteNumber(RequestedFields[f])
        /\ InAllowedRange(f, RequestedFields[f].v)}

\* the spread rule lowered the overridden terminalGrowthRate
GrowthLowered ==
    \E i \in 1..Len(warnings) : warnings[i].kind = "terminalGrowthRate_reduced"

\* the effective value of a field in the unit of the request
EffectiveField(f) ==
    IF f \in YearFields THEN 10 * effectiveDcfInputs[f] ELSE effectiveDcfInputs[f]

\* C16 as stated: every finite in-range dcf number override is the effective
\* value exactly, terminalGrowthRate excepted where the spread rule lowered it.
C16_OverrideKeptExactly ==
    OverridesApplied =>
        \A f \in FaithfulFields :
            (f = "terminalGrowthRate" /\ GrowthLowered)
            \/ EffectiveField(f) = RequestedFields[f].v

\* C16 amended: as stated for the seven rate and amount fields; fadeYears and
\* explicitPeriodYears hold the integer nearest to the override (half up).
C16_OverrideKeptOrRounded ==
    OverridesApplied =>
        \A f \in FaithfulFields :
            \/ f = "terminalGrowthRate" /\ GrowthLowered
            \/ f \notin YearFields /\ effectiveDcfInputs[f] = RequestedFields[f].v
            \/ /\ f \in YearFields
               /\ 10 * effectiveDcfInputs[f] - 5 <= RequestedFields[f].v
               /\ RequestedFields[f].v < 10 * effectiveDcfInputs[f] + 5

\* a response to a request that overrides wacc by 0.11 and fadeYears by 2.5
C16_Witness ==
    /\ Returned
    /\ FaithfulFields = {"wacc", "fadeYears"}
    /\ RequestedFields["fadeYears"].v = 25
    /\ effectiveDcfInputs.fadeYears = 3
    /\ effectiveDcfInputs.wacc = 1100

\* the driver patches of the request whose year has no matching driver
IgnoredPatches ==
    {i \in 1..Len(RequestedPatches) : RequestedPatches[i].year \notin DriverYears}

\* every finite driver field of patch i is the effective driver's field
PatchApplied(i) ==
    \A j \in 1..Len(RequestedPatches[i].entries) :
        LET entry == RequestedPatches[i].entries[j]
        IN (entry.key \in DriverKeys /\ IsFiniteNumber(entry.value)) =>
              effectiveDcfInputs.drivers[RequestedPatches[i].year][entry.key] = entry.value.v

\* C17: a driver patch whose year has no matching driver is ignored with a
\* warning and does not fail the request (a failure names another, non-finite
\* override or comes from the Monte Carlo parameters); the other patches and
\* the dcf number fields of the same request are still applied.
C17_UnmatchedPatchIgnored ==
    (overrides.dcf.present /\ IgnoredPatches # {}) =>
        /\ Failed => outcome.error \in NonFiniteOverrides(DriverYears) \cup {TypeError}
        /\ (Terminal /\ NonFiniteOverrides(DriverYears) = {} /\ outcome.error # TypeError)
              => Returned
        /\ OverridesApplied =>
              /\ \A i \in IgnoredPatches :
                    \E k \in 1..Len(warnings) :
                        warnings[k] = Warning("driver_override_ignored",
                                              RequestedPatches[i].year, 0)
              /\ \A i \in (1..Len(RequestedPatches)) \ IgnoredPatches : PatchApplied(i)
              /\ \A f \in FaithfulFields \ YearFields :
                    \/ f = "terminalGrowthRate" /\ GrowthLowered
                    \/ effectiveDcfInputs[f] = RequestedFields[f].v

\* a response to a request whose first patch addresses year 6 and whose
\* second patch sets the operating margin of year 2
C17_Witness ==
    /\ Returned
    /\ Len(RequestedPatches) = 2
    /\ IgnoredPatches = {1}
    /\ RequestedPatches[2].year = 2
    /\ effectiveDcfInputs.drivers[2].operatingMargin = 2500
    /\ HasWarning("driver_override_ignored")

----------------------------------------------------------------------------
(* Distribution stripping *)

\* what runMonteCarloSimulation returned to runValuation for method m
Simulated(m) ==
    runMonteCarloSimulation(monteCarloByMethod[methods[m].key],
                            [effectiveDcfInputs EXCEPT
                                !.terminalMethod = methods[m].terminalMethod],
                            financialData, numerics.kept[m]).result

SameStatistics(a, b) ==
    /\ a.p10 = b.p10 /\ a.p25 = b.p25 /\ a.p50 = b.p50 /\ a.p75 = b.p75 /\ a.p90 = b.p90
    /\ a.mean = b.mean
    /\ a.stdDev = b.stdDev
    /\ a.currentPricePercentile = b.currentPricePercentile

\* C18: in a response, when includeDistribution is false every
\* results.*.monteCarlo.valueDistribution is empty while the percentiles,
\* mean, stdDev and currentPricePercentile are the simulation's; when it is
\* true the whole simulation result, distribution included, is returned.
C18_DistributionStripped ==
    /\ Returned => DOMAIN results = MethodKeys
    /\ \A m \in 1..Len(methods) :
          methods[m].key \in DOMAIN results =>
              LET stored == results[methods[m].key].monteCarlo
              IN /\ SameStatistics(stored, Simulated(m))
                 /\ stored.valueDistribution =
                       IF includeDistribution THEN Simulated(m).valueDistribution
                       ELSE << >>

\* a response without distribution whose perpetuity simulation kept two values
C18_Witness ==
    /\ Returned
    /\ ~includeDistribution
    /\ Len(Simulated(1).valueDistribution) = 2
    /\ results["perpetuity"].monteCarlo.valueDistribution = << >>
    /\ results["perpetuity"].monteCarlo.p50 = 15000
    /\ results["fade"].monteCarlo = emptyResult

----------------------------------------------------------------------------
(* Objects after they were handed over *)

\* what the Monte Carlo step of method pc.m passes to runMonteCarloSimulation
PassedParams ==
    applyMonteCarloOverrides(createDefaultMonteCarloParams(frame.methodInputs, financialData),
                             overrides.monteCarlo, warnings).params

----------------------------------------------------------------------------
(* State shared between runs *)

\* C20: no state is shared between requests: no draw of a Monte Carlo run is
\* a value left in the Box-Muller cache by an earlier run.
C20_NoStateSharedBetweenRuns ==
    Simulating => ~sim.drewStale

----------------------------------------------------------------------------
(* Prefill *)

PrefillReturned == prefilled # Unset

WaccFallbackWarned ==
    \E i \in 1..Len(prefilled.audit.warnings) :
        prefilled.audit.warnings[i].kind = "wacc_not_finite"

\* C21: createPrefilledDCFInputs returns inputs and an audit for every bundle
\* and never raises (nothing of runValuation happens, no failure included,
\* before it has returned); the prefilled wacc is the calculated WACC clamped
\* to [0.06, 0.15], and a non-finite calculated WACC is replaced by 0.10 and
\* recorded as a warning.
C21_PrefillNeverRaises ==
    /\ pc.at # "createPrefilledDCFInputs" => PrefillReturned
    /\ PrefillReturned =>
          /\ Len(prefilled.dcfInputs.drivers) = 5
          /\ prefilled.dcfInputs.explicitPeriodYears = 5
          /\ prefilled.dcfInputs.wacc = prefilled.audit.finalWacc
          /\ 600 <= prefilled.dcfInputs.wacc /\ prefilled.dcfInputs.wacc <= 1500
          /\ IsFiniteNumber(financialData.beta) =>
                /\ ~WaccFallbackWarned
                /\ IsFiniteNumber(prefilled.audit.calculatedWacc)
                /\ prefilled.audit.calculatedWacc.v \in 600..1500 =>
                      prefilled.dcfInputs.wacc = prefilled.audit.calculatedWacc.v
          /\ ~IsFiniteNumber(financialData.beta) =>
                /\ prefilled.dcfInputs.wacc = 1000
                /\ WaccFallbackWarned

\* a prefill whose beta is NaN: wacc 0.10 and the warning
C21_Witness ==
    /\ PrefillReturned
    /\ financialData.beta = NaN
    /\ prefilled.dcfInputs.wacc = 1000
    /\ WaccFallbackWarned
    /\ Returned

NoOverrides == ~overrides.dcf.present /\ ~overrides.monteCarlo.present

\* C22: when latestAnnualRevenue and ttmRevenue are both 0, prefill sets
\* baseRevenue to 0 and its warnings refer to the WACC fallback, and
\* runValuation (no overrides) returns a response whose fair values are zero
\* or finite.
C22_ZeroRevenueWarned ==
    (PrefillReturned /\ financialData.latestAnnualRevenue = 0 /\ financialData.ttmRevenue = 0) =>
        /\ prefilled.dcfInputs.baseRevenue = 0
        /\ WaccFallbackWarned
        /\ (Terminal /\ NoOverrides) =>
              /\ Returned
              /\ \A key \in MethodKeys : results[key].dcf.fairValuePerShareFinite

----------------------------------------------------------------------------
(* JavaScript numbers with exact values.  A number is a fraction n/d in     *)
(* lowest terms with d > 0, NaN, or an infinity whose sign is n.  The       *)
(* operators follow IEEE 754 apart from rounding and the sign of zero.      *)

RECURSIVE GCD(_, _)
GCD(a, b) == IF b = 0 THEN a ELSE GCD(b, a % b)

Q(n, d) ==
    LET g == GCD(Abs(n), Abs(d))
        s == IF d < 0 THEN -1 ELSE 1
    IN [t |-> "number", n |-> s * (n \div g), d |-> s * (d \div g)]

QInt(n) == [t |-> "number", n |-> n, d |-> 1]
QNaN == [t |-> "NaN", n |-> 0, d |-> 1]
QInfinity(sign) == [t |-> "Infinity", n |-> sign, d |-> 1]

\* a rate of the model, kept in basis points, as the fraction the code holds
Bp(x) == Q(x, 10000)

Sign(n) == IF n > 0 THEN 1 ELSE IF n < 0 THEN -1 ELSE 0

QNeg(a) == [a EXCEPT !.n = -a.n]

QAdd(a, b) ==
    CASE a.t = "NaN" \/ b.t = "NaN" -> QNaN
      [] a.t = "Infinity" /\ b.t = "Infinity" -> IF a.n = b.n THEN a ELSE QNaN
      [] a.t = "Infinity" /\ b.t = "number" -> a
      [] a.t = "number" /\ b.t = "Infinity" -> b
      [] a.t = "number" /\ b.t = "number" ->
            LET g == GCD(a.d, b.d)
            IN Q(a.n * (b.d \div g) + b.n * (a.d \div g), a.d * (b.d \div g))

QSub(a, b) == QAdd(a, QNeg(b))

QMul(a, b) ==
    CASE a.t = "NaN" \/ b.t = "NaN" -> QNaN
      [] a.t = "number" /\ b.t = "number" ->
            LET g1 == GCD(Abs(a.n), b.d)
                g2 == GCD(Abs(b.n), a.d)
            IN Q((a.n \div g1) * (b.n \div g2), (a.d \div g2) * (b.d \div g1))
      [] OTHER -> IF a.n = 0 \/ b.n = 0 THEN QNaN
                  ELSE QInfinity(Sign(a.n) * Sign(b.n))

QDiv(a, b) ==
    CASE a.t = "NaN" \/ b.t = "NaN" -> QNaN
      [] a.t = "Infinity" /\ b.t = "Infinity" -> QNaN
      [] a.t = "Infinity" /\ b.t = "number" -> QInfinity(IF b.n < 0 THEN -a.n ELSE a.n)
      [] a.t = "number" /\ b.t = "Infinity" -> QInt(0)
      [] a.t = "number" /\ b.t = "number" ->
            IF b.n = 0 THEN (IF a.n = 0 THEN QNaN ELSE QInfinity(Sign(a.n)))
            ELSE QMul(a, Q(b.d, b.n))

\* Math.pow(a, k) for a whole k >= 0
RECURSIVE QPow(_, _)
QPow(a, k) == IF k = 0 THEN QInt(1) ELSE QMul(a, QPow(a, k - 1))

\* a > b as JavaScript compares numbers: false when either is NaN
QGt(a, b) ==
    CASE a.t = "NaN" \/ b.t = "NaN" -> FALSE
      [] a.t = "Infinity" /\ b.t = "Infinity" -> a.n > b.n
      [] a.t = "Infinity" /\ b.t = "number" -> a.n > 0
      [] a.t = "number" /\ b.t = "Infinity" -> b.n < 0
      [] a.t = "number" /\ b.t = "number" -> a.n * b.d > b.n * a.d

QGe(a, b) == QGt(a, b) \/ (a.t # "NaN" /\ a = b)

\* Number.isFinite
QIsFinite(a) == a.t = "number"

----------------------------------------------------------------------------
(* calculateDCF on exact numbers: the DCFResult it returns for inputs       *)
(* whose rates are held in basis points and whose money is whole.           *)

QOne == QInt(1)

RECURSIVE QSum(_)
QSum(values) == IF values = << >> THEN QInt(0)
                ELSE QAdd(QSum(SubSeq(values, 1, Len(values) - 1)), values[Len(values)])

\* the revenue projected for a year; year 0 is inputs.baseRevenue
RECURSIVE revenueOf(_, _)
revenueOf(inputs, year) ==
    IF year = 0 THEN QInt(inputs.baseRevenue)
    ELSE QMul(revenueOf(inputs, year - 1), QAdd(QOne, Bp(inputs.drivers[year].revenueGrowth)))

\* one pass of the projection loop
YearProjection(inputs, year) ==
    LET driver == inputs.drivers[year]
        prevRevenue == revenueOf(inputs, year - 1)
        revenue == revenueOf(inputs, year)
        deltaRevenue == QSub(revenue, prevRevenue)
        operatingIncome == QMul(revenue, Bp(driver.operatingMargin))
        nopat == QMul(operatingIncome, QSub(QOne, Bp(driver.taxRate)))
        da == QMul(revenue, Bp(driver.daPercent))
        capex == QMul(revenue, Bp(driver.capexPercent))
        wcChange == QMul(deltaRevenue, Bp(driver.wcChangePercent))
        fcf == QSub(QSub(QAdd(nopat, da), capex), wcChange)
        discountFactor == QPow(QAdd(QOne, Bp(inputs.wacc)), year)
    IN [year |-> year, revenue |-> revenue, nopat |-> nopat, fcf |-> fcf,
        presentValue |-> QDiv(fcf, discountFactor)]

\* the fade loop from year y on: fadeNopat and fadePV when it ends
RECURSIVE fadeLoop(_, _, _, _)
fadeLoop(inputs, y, fadeNopat, fadePV) ==
    IF y > inputs.fadeYears THEN [fadeNopat |-> fadeNopat, fadePV |-> fadePV]
    ELSE LET gEnd == Bp(inputs.terminalGrowthRate)
             roicEnd == Bp(inputs.steadyStateROIC)
             fadeFactor == QSub(QOne, Q(y, inputs.fadeYears))
             yearGrowth == QAdd(gEnd, QMul(QSub(Bp(inputs.fadeStartGrowth), gEnd), fadeFactor))
             yearROIC == QAdd(roicEnd, QMul(QSub(Bp(inputs.fadeStartROIC), roicEnd), fadeFactor))
             yearReinvestment == IF QGt(yearROIC, Q(1, 1000)) THEN QDiv(yearGrowth, yearROIC)
                                 ELSE QInt(0)
             nextNopat == QMul(fadeNopat, QAdd(QOne, yearGrowth))
             yearFCF == QMul(nextNopat, QSub(QOne, yearReinvestment))
             discount == QPow(QAdd(QOne, Bp(inputs.wacc)), inputs.explicitPeriodYears + y)
         IN fadeLoop(inputs, y + 1, nextNopat, QAdd(fadePV, QDiv(yearFCF, discount)))

terminalValue(inputs, lastProjection) ==
    LET g == Bp(inputs.terminalGrowthRate)
        wacc == Bp(inputs.wacc)
        roicEnd == Bp(inputs.steadyStateROIC)
    IN CASE inputs.terminalMethod = "perpetuity" ->
              QDiv(QMul(lastProjection.fcf, QAdd(QOne, g)), QSub(wacc, g))
         [] inputs.terminalMethod = "roic-driven" ->
              LET reinvestmentRate == QDiv(g, roicEnd)
                  steadyStateNOPAT == QMul(lastProjection.nopat, QAdd(QOne, g))
                  terminalFCF == QMul(steadyStateNOPAT, QSub(QOne, reinvestmentRate))
              IN QDiv(terminalFCF, QSub(wacc, g))
         [] inputs.terminalMethod = "fade" ->
              LET faded == fadeLoop(inputs, 1, lastProjection.nopat, QInt(0))
                  postFadeNopat == QMul(faded.fadeNopat, QAdd(QOne, g))
                  postFadeReinvestment == IF QGt(roicEnd, Q(1, 1000)) THEN QDiv(g, roicEnd)
                                          ELSE QInt(0)
                  postFadeFCF == QMul(postFadeNopat, QSub(QOne, postFadeReinvestment))
                  postFadeTV == QDiv(postFadeFCF, QSub(wacc, g))
                  postFadePV == QDiv(postFadeTV,
                                     QPow(QAdd(QOne, wacc),
                                          inputs.explicitPeriodYears + inputs.fadeYears))
              IN QMul(QAdd(faded.fadePV, postFadePV),
                      QPow(QAdd(QOne, wacc), inputs.explicitPeriodYears))
         [] OTHER -> QInt(0)

terminalValuePercent(terminalValuePV, enterpriseValue) ==
    QMul(QDiv(terminalValuePV, enterpriseValue), QInt(100))

\* what calculateDCF returns; fin carries netCash and sharesOutstanding
DCFResult(inputs, fin) ==
    LET projections == [year \in 1..inputs.explicitPeriodYears |-> YearProjection(inputs, year)]
        explicitPeriodPV == QSum([year \in 1..inputs.explicitPeriodYears |->
                                     projections[year].presentValue])
        lastProjection == projections[Len(projections)]
        terminalValuePV == QDiv(terminalValue(inputs, lastProjection),
                                QPow(QAdd(QOne, Bp(inputs.wacc)), inputs.explicitPeriodYears))
        enterpriseValue == QAdd(explicitPeriodPV, terminalValuePV)
        equityValue == QAdd(enterpriseValue, QInt(fin.netCash))
    IN [enterpriseValue |-> enterpriseValue,
        equityValue |-> equityValue,
        fairValuePerShare |-> IF fin.sharesOutstanding > 0
                              THEN QDiv(equityValue, QInt(fin.sharesOutstanding))
                              ELSE QInt(0),
        explicitPeriodPV |-> explicitPeriodPV,
        terminalValuePV |-> terminalValuePV,
        terminalValuePercent |-> terminalValuePercent(terminalValuePV, enterpriseValue),
        projections |-> projections]

----------------------------------------------------------------------------
(* runStructuralCheck and calculateMarketImplied on exact numbers *)

\* inputs.drivers.reduce((sum, d) => sum + d[key], 0) / inputs.drivers.length
driverAverage(drivers, key) ==
    QDiv(QSum([i \in 1..Len(drivers) |-> Bp(drivers[i][key])]), QInt(Len(drivers)))

\* (capex - da + wc) / (operatingMargin * (1 - taxRate)) of one driver or of
\* the averages, with what the code puts in place of it when the margin is
\* not positive
reinvestmentOver(opMargin, taxRate, capex, da, wc, otherwise) ==
    LET netNopatMargin == QMul(opMargin, QSub(QOne, taxRate))
    IN IF QGt(netNopatMargin, QInt(0))
       THEN QDiv(QAdd(QSub(capex, da), wc), netNopatMargin)
       ELSE otherwise

averageReinvestment(drivers, otherwise) ==
    reinvestmentOver(driverAverage(drivers, "operatingMargin"), driverAverage(drivers, "taxRate"),
                     driverAverage(drivers, "capexPercent"), driverAverage(drivers, "daPercent"),
                     driverAverage(drivers, "wcChangePercent"), otherwise)

\* the StructuralCheck runStructuralCheck returns; warnings by kind, in order
StructuralCheck(inputs, result, fin) ==
    LET avgAssumedGrowth == driverAverage(inputs.drivers, "revenueGrowth")
        actualROIC == Bp(fin.historicalROIC)
        benchmark == getIndustryBenchmarkROIC(fin.industry, fin.sector)
        lowerExtreme == Bp(MinOf(-1000, benchmark - 3000))
        roicWarn == IF QGt(actualROIC, Q(roicErrorTimes10(benchmark), 100000))
                       \/ QGt(lowerExtreme, actualROIC)
                    THEN <<"historical_roic_extreme">> ELSE << >>
        reinvestmentRate == averageReinvestment(inputs.drivers, QInt(0))
        impliedGrowth == QMul(actualROIC, reinvestmentRate)
        difference == QSub(avgAssumedGrowth, impliedGrowth)
        growthDeviation == IF QGt(QInt(0), difference) THEN QNeg(difference) ELSE difference
        growthIsValid == QGt(Bp(500), growthDeviation)
        growthWarn == IF growthIsValid THEN << >>
                      ELSE IF QGt(avgAssumedGrowth, impliedGrowth) THEN <<"growth_above_implied">>
                      ELSE <<"growth_below_implied">>
        lastDriver == inputs.drivers[Len(inputs.drivers)]
        capexDARatio == IF lastDriver.daPercent > 0
                        THEN QDiv(Bp(lastDriver.capexPercent), Bp(lastDriver.daPercent))
                        ELSE QInt(0)
        capexDAReasonable == QGe(capexDARatio, Q(4, 5)) /\ QGe(Q(3, 2), capexDARatio)
        capexWarn == IF capexDAReasonable THEN << >>
                     ELSE IF QGt(Q(4, 5), capexDARatio) THEN <<"capex_da_low">>
                     ELSE <<"capex_da_high">>
        lastProjection == result.projections[Len(result.projections)]
        fcfToNI == IF QGt(lastProjection.nopat, QInt(0))
                   THEN QDiv(lastProjection.fcf, lastProjection.nopat) ELSE QInt(0)
        fcfReasonable == QGe(fcfToNI, Q(3, 5)) /\ QGe(Q(6, 5), fcfToNI)
        fcfWarn == IF fcfReasonable THEN << >>
                   ELSE IF QGt(Q(3, 5), fcfToNI) THEN <<"fcf_quality_low">>
                   ELSE <<"fcf_quality_high">>
        tvWarn == IF QGt(result.terminalValuePercent, QInt(80))
                  THEN <<"terminal_value_share_high">> ELSE << >>
        spreadWarn == IF inputs.terminalGrowthRate >= inputs.wacc
                      THEN <<"growth_not_below_wacc">> ELSE << >>
        gdpWarn == IF inputs.terminalGrowthRate > 400 THEN <<"growth_above_gdp">> ELSE << >>
        warned == roicWarn \o growthWarn \o capexWarn \o fcfWarn \o tvWarn \o spreadWarn \o gdpWarn
    IN [growthConsistency |-> [impliedGrowth |-> impliedGrowth,
                               assumedGrowth |-> avgAssumedGrowth,
                               deviation |-> growthDeviation,
                               isValid |-> growthIsValid],
        capexDARatio |-> [current |-> capexDARatio, isReasonable |-> capexDAReasonable],
        fcfQuality |-> [fcfToNI |-> fcfToNI, isReasonable |-> fcfReasonable],
        hasWarnings |-> warned # << >>,
        warnings |-> warned]

QNull == [t |-> "null", n |-> 0, d |-> 1]

\* Number.isFinite(rate) && rate > 0
usableRate(rate) == QIsFinite(rate) /\ QGt(rate, QInt(0))

computeReinvestmentRate(inputs) ==
    IF Len(inputs.drivers) = 0 THEN QNull
    ELSE LET lastDriver == inputs.drivers[Len(inputs.drivers)]
             lastReinvestmentRate ==
                 reinvestmentOver(Bp(lastDriver.operatingMargin), Bp(lastDriver.taxRate),
                                  Bp(lastDriver.capexPercent), Bp(lastDriver.daPercent),
                                  Bp(lastDriver.wcChangePercent), QNaN)
             avgReinvestmentRate == averageReinvestment(inputs.drivers, QNaN)
         IN IF usableRate(lastReinvestmentRate) THEN lastReinvestmentRate
            ELSE IF usableRate(avgReinvestmentRate) THEN avgReinvestmentRate
            ELSE QNull

\* computeReinvestmentRate(inputs) ?? 0.4
assumedReinvestmentRate(inputs) ==
    IF computeReinvestmentRate(inputs) = QNull THEN Q(4, 10) ELSE computeReinvestmentRate(inputs)

\* Math.max(lo, Math.min(hi, x)) for a finite x
QClamp(x, lo, hi) == IF QGt(lo, x) THEN lo ELSE IF QGt(x, hi) THEN hi ELSE x

\* the implied growth and ROIC of the MarketImplied that calculateMarketImplied
\* returns, with the reinvestment rate they are derived from; wacc in basis points
MarketImplied(fin, wacc, inputs) ==
    LET enterpriseValue == fin.currentPrice * fin.sharesOutstanding - fin.netCash
        impliedGrowthRate ==
            IF fin.ttmFCF > 0 /\ enterpriseValue > 0
            THEN QClamp(QDiv(QSub(QMul(QInt(enterpriseValue), Bp(wacc)), QInt(fin.ttmFCF)),
                             QInt(enterpriseValue + fin.ttmFCF)),
                        Q(-1, 10), Q(3, 10))
            ELSE QInt(0)
        currentOpMargin == IF fin.ttmRevenue > 0 THEN Q(fin.ttmOperatingIncome, fin.ttmRevenue)
                           ELSE QInt(0)
        rate == assumedReinvestmentRate(inputs)
    IN [impliedGrowthRate |-> impliedGrowthRate,
        assumedReinvestmentRate |-> rate,
        impliedROIC |-> IF QGt(impliedGrowthRate, QInt(0)) /\ QGt(rate, QInt(0))
                        THEN QDiv(impliedGrowthRate, rate)
                        ELSE QMul(currentOpMargin, Q(16, 10))]

----------------------------------------------------------------------------
(* The three engines applied in the orchestrator's order to one DCFInputs   *)
(* whose numbers are kept exactly.  The inputs are a base case with one     *)
(* driver field of one year changed; rates are multiples of 1/20 so that    *)
(* every intermediate value stays a small fraction.                         *)

EngineYears == 3

EngineDriver ==
    [revenueGrowth |-> 2500, grossMargin |-> 4000, operatingMargin |-> 2000,
     taxRate |-> 2500, daPercent |-> 500, capexPercent |-> 500, wcChangePercent |-> 1000]

EngineInputs(terminalMethod, explicitPeriodYears, terminalGrowthRate) ==
    [symbol |-> "TEST",
     explicitPeriodYears |-> explicitPeriodYears,
     drivers |-> [i \in 1..EngineYears |-> EngineDriver],
     terminalMethod |-> terminalMethod,
     terminalGrowthRate |-> terminalGrowthRate,
     steadyStateROIC |-> 2000,
     fadeYears |-> 2,
     fadeStartGrowth |-> 1500,
     fadeStartROIC |-> 3000,
     wacc |-> 2500,
     baseRevenue |-> 100,
     baseNetIncome |-> 10]

EngineFinancialData ==
    [symbol |-> "TEST", netCash |-> 20, sharesOutstanding |-> 10, currentPrice |-> 30,
     ttmFCF |-> 20, ttmOperatingIncome |-> 20, ttmRevenue |-> 100, historicalROIC |-> 1500,
     industry |-> "Software - Application", sector |-> "Technology"]

\* the driver fields changed, as entries of a DriverOverride
EngineDriverAlts ==
    <<Entry("capexPercent", 5000), Entry("capexPercent", 0), Entry("operatingMargin", -1000),
      Entry("daPercent", 0), Entry("revenueGrowth", 0), Entry("wcChangePercent", -1000)>>

EngineGrowthAlts == {500, 2500}

withDriverField(inputs, year, entry) ==
    [inputs EXCEPT !.drivers[year] = [key \in DOMAIN @ |->
                                        IF key = entry.key THEN entry.value ELSE @[key]]]

EngineStart(inputs, fin) ==
    [at |-> "calculateDCF", inputs |-> inputs, fin |-> fin,
     dcf |-> Unset, layerB |-> Unset, layerC |-> Unset]

\* no runValuation call and no simulation is under way
RunIdle ==
    /\ financialData = TestFinancialData
    /\ waccInputs = TestWaccInputs
    /\ overrides = RequestOverrides({}, << >>)
    /\ numerics = TestNumerics
    /\ includeDistribution = FALSE
    /\ pc = At("idle", 0)
    /\ frame = Unset
    /\ prefilled = Unset
    /\ effectiveDcfInputs = Unset
    /\ warnings = << >>
    /\ results = [k \in {} |-> Unset]
    /\ monteCarloByMethod = [k \in {} |-> Unset]
    /\ layerC = Unset
    /\ outcome = [kind |-> "none", error |-> NoError]
    /\ calls = << >>
    /\ sim = Unset
    /\ spareNormal = "null"

InitEngines ==
    /\ \E m \in 1..Len(methods) : \E e \in 1..EngineYears : \E g \in EngineGrowthAlts :
       \E year \in 0..EngineYears : \E a \in 1..Len(EngineDriverAlts) :
          LET base == EngineInputs(methods[m].terminalMethod, e, g)
          IN engine = EngineStart(IF year = 0 THEN base
                                  ELSE withDriverField(base, year, EngineDriverAlts[a]),
                                  EngineFinancialData)
    /\ RunIdle
    /\ http = Unset
    /\ AppIdle

\* const dcf = calculateDCF(methodInputs, financialData)
EngineCalculateDCF ==
    /\ engine # Unset
    /\ engine.at = "calculateDCF"
    /\ engine' = [engine EXCEPT !.dcf = DCFResult(engine.inputs, engine.fin),
                                !.at = "runStructuralCheck"]
    /\ UNCHANGED <<runVars, simVars, http, appVars>>

\* const layerB = runStructuralCheck(methodInputs, dcf, financialData)
EngineRunStructuralCheck ==
    /\ engine # Unset
    /\ engine.at = "runStructuralCheck"
    /\ engine' = [engine EXCEPT !.layerB = StructuralCheck(engine.inputs, engine.dcf, engine.fin),
                                !.at = "calculateMarketImplied"]
    /\ UNCHANGED <<runVars, simVars, http, appVars>>

\* const layerC = calculateMarketImplied(financialData, wacc, dcfInputs)
EngineCalculateMarketImplied ==
    /\ engine # Unset
    /\ engine.at = "calculateMarketImplied"
    /\ engine' = [engine EXCEPT !.layerC = MarketImplied(engine.fin, engine.inputs.wacc,
                                                         engine.inputs),
                                !.at = "done"]
    /\ UNCHANGED <<runVars, simVars, http, appVars>>

NextEngines ==
    \/ EngineCalculateDCF
    \/ EngineRunStructuralCheck
    \/ EngineCalculateMarketImplied

SpecEngines == InitEngines /\ [][NextEngines]_vars

DcfCalculated == engine # Unset /\ engine.dcf # Unset

\* C23: in every DCFResult whose enterpriseValue is above zero, the
\* terminalValuePercent lies between 0 and 100 inclusive.
C23_TerminalShareInRange ==
    (DcfCalculated /\ QGt(engine.dcf.enterpriseValue, QInt(0))) =>
        /\ QGe(engine.dcf.terminalValuePercent, QInt(0))
        /\ QGe(QInt(100), engine.dcf.terminalValuePercent)

\* the inputs with the drivers of the explicit period only
explicitOnly(inputs) ==
    [inputs EXCEPT !.drivers = SubSeq(inputs.drivers, 1, inputs.explicitPeriodYears)]

\* C24: runStructuralCheck reads only the explicit period: the averages are
\* taken over the first explicitPeriodYears drivers and the CapEx/D&A ratio
\* comes from the last explicit year, so the StructuralCheck is the one the
\* inputs without the drivers beyond explicitPeriodYears give.
C24_ChecksExplicitPeriodOnly ==
    (engine # Unset /\ engine.layerB # Unset) =>
        engine.layerB = StructuralCheck(explicitOnly(engine.inputs), engine.dcf, engine.fin)

\* C26: calculateMarketImplied takes its reinvestment rate from the first
\* finite and positive one of: the rate of the last explicit-year driver,
\* the rate of the averages over the explicit years, the literal 0.4.
C26_ReinvestmentRateChain ==
    (engine # Unset /\ engine.layerC # Unset) =>
        LET explicit == SubSeq(engine.inputs.drivers, 1, engine.inputs.explicitPeriodYears)
            last == explicit[Len(explicit)]
            lastRate == reinvestmentOver(Bp(last.operatingMargin), Bp(last.taxRate),
                                         Bp(last.capexPercent), Bp(last.daPercent),
                                         Bp(last.wcChangePercent), QNaN)
            avgRate == averageReinvestment(explicit, QNaN)
        IN engine.layerC.assumedReinvestmentRate =
              IF usableRate(lastRate) THEN lastRate
              ELSE IF usableRate(avgRate) THEN avgRate
              ELSE Q(4, 10)

----------------------------------------------------------------------------
(* Agent authentication.  A string is the sequence of its characters; the   *)
(* characters used are the space, the comma and two letters.                *)

JsString(chars) == [t |-> "string", s |-> chars]
JsNull == [t |-> "null", s |-> << >>]
JsUndefined == [t |-> "undefined", s |-> << >>]

CharCode(c) == CASE c = " " -> 32 [] c = "," -> 44 [] c = "a" -> 97 [] c = "b" -> 98

\* a ^ b and a | b on non-negative integers
RECURSIVE BitXor(_, _)
BitXor(a, b) == IF a = 0 /\ b = 0 THEN 0
                ELSE (((a % 2) + (b % 2)) % 2) + 2 * BitXor(a \div 2, b \div 2)

RECURSIVE BitOr(_, _)
BitOr(a, b) == IF a = 0 /\ b = 0 THEN 0
               ELSE (IF (a % 2) = 1 \/ (b % 2) = 1 THEN 1 ELSE 0) + 2 * BitOr(a \div 2, b \div 2)

\* the loop of secureCompare from index i (0-based) with diff so far
RECURSIVE compareFrom(_, _, _, _)
compareFrom(left, right, i, diff) ==
    IF i >= MaxOf(Len(left), Len(right)) THEN diff
    ELSE LET leftCode == IF i < Len(left) THEN CharCode(left[i + 1]) ELSE 0
             rightCode == IF i < Len(right) THEN CharCode(right[i + 1]) ELSE 0
         IN compareFrom(left, right, i + 1, BitOr(diff, BitXor(leftCode, rightCode)))

\* variant that compares only as far as the shorter string goes
secureCompare_PrefixOnly(left, right) ==
    \A i \in 1..MinOf(Len(left), Len(right)) : CharCode(left[i]) = CharCode(right[i])

secureCompare(left, right) ==
    compareFrom(left, right, 0, BitXor(Len(left), Len(right))) = 0

\* String.prototype.trim
RECURSIVE trim(_)
trim(chars) ==
    IF chars = << >> THEN << >>
    ELSE IF chars[1] = " " THEN trim(Tail(chars))
    ELSE IF chars[Len(chars)] = " " THEN trim(SubSeq(chars, 1, Len(chars) - 1))
    ELSE chars

\* chars.split(','): the pieces between the commas, current being the piece
\* read so far
RECURSIVE splitFrom(_, _)
splitFrom(chars, current) ==
    IF chars = << >> THEN <<current>>
    ELSE IF chars[1] = "," THEN <<current>> \o splitFrom(Tail(chars), << >>)
    ELSE splitFrom(Tail(chars), Append(current, chars[1]))

\* .map(key => key.trim()).filter(Boolean)
RECURSIVE trimmedNonEmpty(_)
trimmedNonEmpty(pieces) ==
    IF pieces = << >> THEN << >>
    ELSE (IF trim(pieces[1]) = << >> THEN << >> ELSE <<trim(pieces[1])>>)
         \o trimmedNonEmpty(Tail(pieces))

\* value && value.trim().length > 0
isSet(value) == value.t = "string" /\ value.s # << >> /\ trim(value.s) # << >>

parseAllowedKeys(env) ==
    IF isSet(env.AGENT_API_KEYS) THEN trimmedNonEmpty(splitFrom(env.AGENT_API_KEYS.s, << >>))
    ELSE IF isSet(env.AGENT_API_KEY) THEN <<trim(env.AGENT_API_KEY.s)>>
    ELSE << >>

Thrown(status, code) == [status |-> status, code |-> code]
NothingThrown == Thrown(0, "none")

\* what assertAgentAuthorized throws
assertAgentAuthorized(headerValue, env) ==
    LET allowedKeys == parseAllowedKeys(env)
    IN IF Len(allowedKeys) = 0 THEN Thrown(500, "auth_not_configured")
       ELSE IF ~isSet(headerValue) THEN Thrown(401, "unauthorized")
       ELSE IF \E k \in 1..Len(allowedKeys) : secureCompare(trim(headerValue.s), allowedKeys[k])
            THEN NothingThrown
       ELSE Thrown(401, "unauthorized")

----------------------------------------------------------------------------
(* POST /v1/valuation: the route's request validation, then handleValuation *)
(* up to its await, then the rest of it.                                    *)

HeaderAlts ==
    {JsNull, JsString(<< >>), JsString(<<" ">>), JsString(<<"a">>), JsString(<<" ", "a", " ">>),
     JsString(<<"b">>), JsString(<<"a", "b">>)}

AgentKeysAlts ==
    {JsUndefined, JsString(<< >>), JsString(<<" ">>), JsString(<<"a">>),
     JsString(<<"a", ",", " ", "b">>), JsString(<<" ", ",", " ">>)}

AgentKeyAlts == {JsUndefined, JsString(<<" ">>), JsString(<<"b">>), JsString(<<" ", "b", " ">>)}

SymbolAlts == {<<"a">>, <<" ">>}

\* what runValuation does with the request: returns, or throws an HttpError
ValuationAlts == {200, 422}

HttpStart(env, header, body, upstream, valuation) ==
    [at |-> "received", env |-> env, header |-> header, body |-> body,
     upstream |-> upstream, valuation |-> valuation,
     fetches |-> 0, ran |-> FALSE, response |-> NothingThrown]

InitHttp ==
    /\ \E keys \in AgentKeysAlts : \E key \in AgentKeyAlts : \E fmp \in BOOLEAN :
       \E header \in HeaderAlts : \E valid \in BOOLEAN : \E symbol \in SymbolAlts :
       \E upstream \in {"found", "null"} : \E valuation \in ValuationAlts :
          http = HttpStart([AGENT_API_KEYS |-> keys, AGENT_API_KEY |-> key, FMP_API_KEY |-> fmp],
                           header, [valid |-> valid, symbol |-> symbol], upstream, valuation)
    /\ RunIdle
    /\ engine = Unset
    /\ AppIdle

respond(h, status, code) == [h EXCEPT !.at = "responded", !.response = Thrown(status, code)]

\* the validators app.openapi puts before the handler: a body that does not
\* parse as ValuationRequestSchema is answered with 400 and the handler is
\* not called
HttpValidate ==
    /\ http # Unset
    /\ http.at = "received"
    /\ http' = IF http.body.valid THEN [http EXCEPT !.at = "handleValuation"]
               ELSE respond(http, 400, "validation")
    /\ UNCHANGED <<runVars, simVars, engine, appVars>>

\* handleValuation, lines 103-122: to the await of the two upstream fetches
\* or to the catch block
HttpHandle ==
    /\ http # Unset
    /\ http.at = "handleValuation"
    /\ \E thrown \in {assertAgentAuthorized(http.header, http.env)} :
          http' = IF thrown # NothingThrown THEN respond(http, thrown.status, thrown.code)
                  ELSE IF trim(http.body.symbol) = << >>
                       THEN respond(http, 400, "invalid_request")
                  ELSE IF ~http.env.FMP_API_KEY THEN respond(http, 500, "missing_config")
                  ELSE [http EXCEPT !.at = "await", !.fetches = 2]
    /\ UNCHANGED <<runVars, simVars, engine, appVars>>

\* handleValuation, lines 124-137, and its catch block
HttpResume ==
    /\ http # Unset
    /\ http.at = "await"
    /\ http' = IF http.upstream = "null" THEN respond(http, 404, "symbol_not_found")
               ELSE IF http.valuation = 200 THEN respond([http EXCEPT !.ran = TRUE], 200, "none")
               ELSE respond([http EXCEPT !.ran = TRUE], http.valuation, "invalid_override")
    /\ UNCHANGED <<runVars, simVars, engine, appVars>>

NextHttp ==
    \/ HttpValidate
    \/ HttpHandle
    \/ HttpResume

SpecHttp == InitHttp /\ [][NextHttp]_vars

Responded == http # Unset /\ http.at = "responded"

\* the key set is configured: some key is left after splitting and trimming
KeysConfigured == Len(parseAllowedKeys(http.env)) > 0

\* the header is present and, trimmed, is one of the configured keys
HeaderMatches ==
    /\ http.header.t = "string"
    /\ \E k \in 1..Len(parseAllowedKeys(http.env)) :
          trim(http.header.s) = parseAllowedKeys(http.env)[k]
    /\ trim(http.header.s) # << >>

\* upstream data was asked for, the valuation was run or 200 was returned
Served == http.fetches > 0 \/ http.ran \/ http.response.status = 200

\* C25 as stated: a request is served only if a key is configured and the
\* trimmed x-agent-key header equals a configured key; a missing, blank or
\* non-matching header is always answered with 401 and an unconfigured key
\* set with 500, each without any upstream fetch.
C25_ServedOnlyWithKey ==
    http # Unset =>
        /\ Served => (KeysConfigured /\ HeaderMatches)
        /\ (Responded /\ ~HeaderMatches) => (http.response.status = 401 /\ http.fetches = 0)
        /\ (Responded /\ ~KeysConfigured) => (http.response.status = 500 /\ http.fetches = 0)

\* C25 (amended): a request is served only if a key is configured and the
\* trimmed x-agent-key header equals a configured key; of the requests whose
\* body passes the route's validation, one arriving while no key is
\* configured is answered with 500 whatever its header, and one with a
\* missing, blank or non-matching header while a key is configured with 401,
\* each without any upstream fetch.
C25_ServedOnlyWithKeyOnceValidated ==
    http # Unset =>
        /\ Served => (KeysConfigured /\ HeaderMatches)
        /\ (Responded /\ http.body.valid /\ KeysConfigured /\ ~HeaderMatches) =>
              (http.response = Thrown(401, "unauthorized") /\ http.fetches = 0)
        /\ (Responded /\ http.body.valid /\ ~KeysConfigured) =>
              (http.response = Thrown(500, "auth_not_configured") /\ http.fetches = 0)

C25_Witness ==
    /\ Responded
    /\ http.response.status = 200
    /\ http.fetches = 2
    /\ http.header = JsString(<<" ", "a", " ">>)
    /\ http.env.AGENT_API_KEYS = JsString(<<"a", ",", " ", "b">>)

----------------------------------------------------------------------------
(* The app store.  A value of the store is kept as what it was made from:   *)
(* the financial data of a symbol, the DCFInputs prefilled for a symbol and *)
(* edited so many times, a result with the inputs it was computed from.     *)
(* monteCarloRunId is a number, 0 for null; run r is the r-th call of       *)
(* crypto.randomUUID().  An error message is kept as Message("error")       *)
(* whatever its text.  The prediction and snapshot lists and activeTab are  *)
(* left out: no action below reads them.                                    *)

\* the loadSymbol and runMonteCarlo calls of one session, and the edits of
\* its inputs
MaxCalls == 2
MaxEdits == 1

Symbols == {"AAA", "BBB"}

Null == [null |-> TRUE]

FinancialDataOf(symbol) == [symbol |-> symbol]
Inputs(symbol, edit) == [symbol |-> symbol, edit |-> edit]
Message(text) == [message |-> text]

\* calculateDCF(dcfInputs, financialData), by its arguments
DcfOf(dcfInputs, fin) == [inputs |-> dcfInputs, fin |-> fin]
\* runStructuralCheck(dcfInputs, dcfResult, financialData), by its arguments
StructuralCheckOf(dcfInputs, dcfResult, fin) ==
    [inputs |-> dcfInputs, result |-> dcfResult, fin |-> fin]
\* calculateMarketImplied(financialData, dcfInputs.wacc, dcfInputs), by its arguments
MarketImpliedOf(fin, dcfInputs) == [inputs |-> dcfInputs, fin |-> fin]
\* createDefaultMonteCarloParams(dcfInputs, financialData), or the params
\* the user set
DefaultParams == [origin |-> "default"]
UserParams == [origin |-> "user"]
\* the MonteCarloResult of a run
MonteCarloOf(runId) == [run |-> runId]

\* lines 132-149
initialStore ==
    [currentSymbol |-> Null, financialData |-> Null, dcfInputs |-> Null,
     dcfResult |-> Null, structuralCheck |-> Null, marketImplied |-> Null,
     monteCarloResult |-> Null, isLoading |-> FALSE, error |-> Null,
     monteCarloParams |-> Null, isRunningMonteCarlo |-> FALSE, monteCarloRunId |-> 0]

\* the set(...) that ends a successful loadSymbol, lines 277-289
loadedStore(s, symbol) ==
    [s EXCEPT !.currentSymbol = [symbol |-> symbol],
              !.financialData = FinancialDataOf(symbol),
              !.dcfInputs = Inputs(symbol, 0),
              !.dcfResult = Null, !.structuralCheck = Null, !.marketImplied = Null,
              !.monteCarloResult = Null, !.monteCarloParams = Null,
              !.isRunningMonteCarlo = FALSE, !.monteCarloRunId = 0,
              !.isLoading = FALSE]

setDCFInputs(s, inputs) ==
    [s EXCEPT !.dcfInputs = inputs, !.dcfResult = Null,
              !.monteCarloResult = Null, !.monteCarloParams = Null,
              !.isRunningMonteCarlo = FALSE, !.monteCarloRunId = 0]

runDCF(s) ==
    IF s.dcfInputs = Null \/ s.financialData = Null THEN s
    ELSE [s EXCEPT !.dcfResult = DcfOf(s.dcfInputs, s.financialData)]

runValidation(s) ==
    IF s.dcfInputs = Null \/ s.dcfResult = Null \/ s.financialData = Null THEN s
    ELSE [s EXCEPT !.structuralCheck = StructuralCheckOf(s.dcfInputs, s.dcfResult, s.financialData),
                   !.marketImplied = MarketImpliedOf(s.financialData, s.dcfInputs)]

setMonteCarloParams(s, params) ==
    [s EXCEPT !.monteCarloParams = params, !.monteCarloResult = Null,
              !.isRunningMonteCarlo = FALSE, !.monteCarloRunId = 0]

\* lines 422-439; isLoading is not among the fields reset
reset(s) == [initialStore EXCEPT !.isLoading = s.isLoading]

\* a snapshot: of the legacy format, or with the full inputs of a symbol
LegacySnapshot == [symbol |-> "BBB", fullInputs |-> Null]
FullSnapshot(symbol, edit) ==
    [symbol |-> symbol,
     fullInputs |-> [dcfInputs |-> Inputs(symbol, edit), financialData |-> FinancialDataOf(symbol)]]

loadFromSnapshot(s, snapshot) ==
    IF snapshot.fullInputs = Null THEN [s EXCEPT !.error = Message("error")]
    ELSE LET dcfInputs == snapshot.fullInputs.dcfInputs
             fin == snapshot.fullInputs.financialData
             result == DcfOf(dcfInputs, fin)
         IN [s EXCEPT !.currentSymbol = [symbol |-> snapshot.symbol],
                      !.financialData = fin,
                      !.dcfInputs = dcfInputs,
                      !.dcfResult = result,
                      !.structuralCheck = StructuralCheckOf(dcfInputs, result, fin),
                      !.marketImplied = MarketImpliedOf(fin, dcfInputs),
                      !.monteCarloResult = Null, !.monteCarloParams = Null,
                      !.isRunningMonteCarlo = FALSE, !.monteCarloRunId = 0]

\* the set(...) that opens runMonteCarlo, lines 353-358
startedRun(s, params, runId) ==
    [s EXCEPT !.isRunningMonteCarlo = TRUE, !.monteCarloParams = params,
              !.monteCarloResult = Null, !.monteCarloRunId = runId]

\* what a worker posts: success with a result, or failure with an error
Success(result) == [success |-> TRUE, result |-> result]
Failure == [success |-> FALSE, result |-> Null]

\* worker.onmessage, lines 378-392, and a variant that applies every message
onmessage_Unchecked(s, runId, data) ==
    IF data.success /\ data.result # Null
    THEN [s EXCEPT !.monteCarloResult = data.result, !.isRunningMonteCarlo = FALSE]
    ELSE [s EXCEPT !.isRunningMonteCarlo = FALSE, !.error = Message("error")]

onmessage(s, runId, data) ==
    IF s.monteCarloRunId # runId THEN s
    ELSE IF data.success /\ data.result # Null
    THEN [s EXCEPT !.monteCarloResult = data.result, !.isRunningMonteCarlo = FALSE]
    ELSE [s EXCEPT !.isRunningMonteCarlo = FALSE, !.error = Message("error")]

\* worker.onerror, lines 394-402, and a variant that only logs the error
onerror_LoggedOnly(s, runId) == s

onerror(s, runId) ==
    IF s.monteCarloRunId # runId THEN s
    ELSE [s EXCEPT !.isRunningMonteCarlo = FALSE, !.error = Message("error")]

\* the catch block of runMonteCarlo, lines 411-419, entered by run runId
caught(s, runId) ==
    IF s.monteCarloRunId = runId
    THEN [s EXCEPT !.isRunningMonteCarlo = FALSE, !.error = Message("error")]
    ELSE s

\* the set(...) of a loadSymbol that got no data or threw, lines 157-162, 291-295
loadFailed(s) == [s EXCEPT !.isLoading = FALSE, !.error = Message("error")]

InitStore ==
    /\ store = initialStore
    /\ loads = << >>
    /\ \E supported \in BOOLEAN : browser = [workerSupported |-> supported, workers |-> << >>]
    /\ RunIdle
    /\ engine = Unset
    /\ http = Unset

restVars == <<runVars, simVars, engine, http>>

\* loadSymbol to its first await
LoadSymbol(symbol) ==
    /\ Len(loads) + Len(browser.workers) < MaxCalls
    /\ store' = [store EXCEPT !.isLoading = TRUE, !.error = Null]
    /\ loads' = Append(loads, [symbol |-> symbol, at |-> "fetchExtendedFinancialData"])
    /\ UNCHANGED <<browser, restVars>>

\* loadSymbol from the data to its second await, or to its end without data
LoadSymbolAfterData(i) ==
    /\ loads[i].at = "fetchExtendedFinancialData"
    /\ \E fetched \in {"data", "null"} :
          IF fetched = "data"
          THEN /\ loads' = [loads EXCEPT ![i].at = "fetchWACCInputs"]
               /\ UNCHANGED store
          ELSE /\ loads' = [loads EXCEPT ![i].at = "failed"]
               /\ store' = loadFailed(store)
    /\ UNCHANGED <<browser, restVars>>

\* loadSymbol from the WACC inputs to its end
LoadSymbolAfterWacc(i) ==
    /\ loads[i].at = "fetchWACCInputs"
    /\ \E fetched \in {"waccInputs", "throws"} :
          IF fetched = "waccInputs"
          THEN /\ loads' = [loads EXCEPT ![i].at = "applied"]
               /\ store' = loadedStore(store, loads[i].symbol)
          ELSE /\ loads' = [loads EXCEPT ![i].at = "failed"]
               /\ store' = loadFailed(store)
    /\ UNCHANGED <<browser, restVars>>

SetDCFInputs ==
    /\ store.dcfInputs # Null
    /\ store.dcfInputs.edit < MaxEdits
    /\ store' = setDCFInputs(store, Inputs(store.dcfInputs.symbol, store.dcfInputs.edit + 1))
    /\ UNCHANGED <<loads, browser, restVars>>

RunDCF ==
    /\ store.dcfInputs # Null /\ store.financialData # Null
    /\ store' = runDCF(store)
    /\ UNCHANGED <<loads, browser, restVars>>

RunValidation ==
    /\ store.dcfInputs # Null /\ store.dcfResult # Null /\ store.financialData # Null
    /\ store' = runValidation(store)
    /\ UNCHANGED <<loads, browser, restVars>>

ClearError ==
    /\ store.error # Null
    /\ store' = [store EXCEPT !.error = Null]
    /\ UNCHANGED <<loads, browser, restVars>>

SetMonteCarloParams ==
    /\ store' = setMonteCarloParams(store, UserParams)
    /\ UNCHANGED <<loads, browser, restVars>>

Reset ==
    /\ store' = reset(store)
    /\ UNCHANGED <<loads, browser, restVars>>

LoadFromSnapshot(snapshot) ==
    /\ store' = loadFromSnapshot(store, snapshot)
    /\ UNCHANGED <<loads, browser, restVars>>

WorkerOf(at) == [at |-> at, data |-> Null]

\* runMonteCarlo: with Worker, to the end of the function (the worker is
\* started, or its construction or postMessage throws); without, the whole
\* synchronous run
RunMonteCarlo ==
    /\ store.dcfInputs # Null /\ store.financialData # Null
    /\ Len(loads) + Len(browser.workers) < MaxCalls
    /\ LET params == IF store.monteCarloParams # Null THEN store.monteCarloParams
                     ELSE DefaultParams
           runId == Len(browser.workers) + 1
           started == startedRun(store, params, runId)
       IN \E thrown \in BOOLEAN :
             IF thrown
             THEN /\ store' = caught(started, runId)
                  /\ browser' = [browser EXCEPT !.workers = Append(@, WorkerOf("none"))]
             ELSE IF browser.workerSupported
             THEN /\ store' = started
                  /\ browser' = [browser EXCEPT !.workers = Append(@, WorkerOf("running"))]
             ELSE /\ store' = [started EXCEPT !.monteCarloResult = MonteCarloOf(runId),
                                              !.isRunningMonteCarlo = FALSE]
                  /\ browser' = [browser EXCEPT !.workers = Append(@, WorkerOf("none"))]
    /\ UNCHANGED <<loads, restVars>>

\* the worker's self.onmessage: it posts one message
WorkerRun(r) ==
    /\ browser.workers[r].at = "running"
    /\ \E succeeded \in BOOLEAN :
          browser' = [browser EXCEPT !.workers[r].at = "posted",
                                     !.workers[r].data =
                                         IF succeeded THEN Success(MonteCarloOf(r))
                                         ELSE Failure]
    /\ UNCHANGED <<store, loads, restVars>>

\* the worker raises an error event instead
WorkerRaise(r) ==
    /\ browser.workers[r].at = "running"
    /\ browser' = [browser EXCEPT !.workers[r].at = "errored"]
    /\ UNCHANGED <<store, loads, restVars>>

\* how a handler left its worker: terminated at once because the run was no
\* longer the current one, or terminated after the set(...)
terminatedAs(s, runId) == IF s.monteCarloRunId # runId THEN "dropped" ELSE "terminated"

OnMessage(r) ==
    /\ browser.workers[r].at = "posted"
    /\ store' = onmessage(store, r, browser.workers[r].data)
    /\ browser' = [browser EXCEPT !.workers[r].at = terminatedAs(store, r)]
    /\ UNCHANGED <<loads, restVars>>

OnError(r) ==
    /\ browser.workers[r].at = "errored"
    /\ store' = onerror(store, r)
    /\ browser' = [browser EXCEPT !.workers[r].at = terminatedAs(store, r)]
    /\ UNCHANGED <<loads, restVars>>

Snapshots == {LegacySnapshot, FullSnapshot("BBB", 0)}

\* the worker of some run posts or raises
WorkerStep == \E r \in 1..Len(browser.workers) : WorkerRun(r) \/ WorkerRaise(r)

\* the event loop delivers a worker's message or error
Delivery == \E r \in 1..Len(browser.workers) : OnMessage(r) \/ OnError(r)

NextStore ==
    \/ \E symbol \in Symbols : LoadSymbol(symbol)
    \/ \E i \in 1..Len(loads) : LoadSymbolAfterData(i)
    \/ \E i \in 1..Len(loads) : LoadSymbolAfterWacc(i)
    \/ SetDCFInputs
    \/ RunDCF
    \/ RunValidation
    \/ ClearError
    \/ SetMonteCarloParams
    \/ Reset
    \/ \E snapshot \in Snapshots : LoadFromSnapshot(snapshot)
    \/ RunMonteCarlo
    \/ WorkerStep
    \/ Delivery

SpecStore == InitStore /\ [][NextStore]_vars

\* the steps of the worker of run r, and the delivery of what it sent
WorkerStepOf(r) == r \in 1..Len(browser.workers) /\ (WorkerRun(r) \/ WorkerRaise(r))
DeliveryOf(r) == r \in 1..Len(browser.workers) /\ (OnMessage(r) \/ OnError(r))

\* each started worker posts one message or raises an error in the end, and
\* the event loop delivers it to the handler
SpecStoreFair ==
    /\ SpecStore
    /\ \A r \in 1..MaxCalls : WF_vars(WorkerStepOf(r)) /\ WF_vars(DeliveryOf(r))

\* the Monte Carlo fields a worker's message or error can change
monteCarloOutcome(s) == <<s.monteCarloResult, s.isRunningMonteCarlo, s.error>>

\* a loadSymbol call stores what it loaded / a snapshot with full inputs is restored
LoadApplied == \E i \in 1..Len(loads) : LoadSymbolAfterWacc(i) /\ loads'[i].at = "applied"
SnapshotRestored == \E snapshot \in Snapshots : LoadFromSnapshot(snapshot) /\ snapshot.fullInputs # Null

\* a loadSymbol call ends, with or without data
LoadEnded ==
    \E i \in 1..Len(loads) :
        (LoadSymbolAfterData(i) \/ LoadSymbolAfterWacc(i)) /\ loads'[i].at \in {"applied", "failed"}

\* a message or an error of a run that is not the current one is delivered
\* and changes none of monteCarloResult, isRunningMonteCarlo, error; and no
\* run, once it is not the current one, becomes current again
StaleIgnored ==
    /\ \A r \in 1..Len(browser.workers) :
          ((OnMessage(r) \/ OnError(r)) /\ store.monteCarloRunId # r) =>
              monteCarloOutcome(store') = monteCarloOutcome(store)
    /\ store'.monteCarloRunId \in {store.monteCarloRunId, 0, Len(browser.workers) + 1}

\* C27 as stated: a worker's result or error is applied only if its run is
\* still the current one, and after setDCFInputs, setMonteCarloParams,
\* loadSymbol, loadFromSnapshot, reset or a newer runMonteCarlo no earlier
\* run is the current one, so none of its messages changes monteCarloResult,
\* isRunningMonteCarlo or error.
C27_EarlierRunsNeverApplied ==
    [][/\ StaleIgnored
       /\ (SetDCFInputs \/ SetMonteCarloParams \/ Reset \/ RunMonteCarlo \/ LoadEnded
             \/ \E snapshot \in Snapshots : LoadFromSnapshot(snapshot))
            => \A r \in 1..Len(browser.workers) : store'.monteCarloRunId # r]_vars

\* C27 (amended): a worker's result or error is applied only if its run is
\* still the current one, and after setDCFInputs, setMonteCarloParams, a
\* loadSymbol that stored the data it loaded, a loadFromSnapshot of a
\* snapshot that has its full inputs, reset or a newer runMonteCarlo no
\* earlier run is the current one, so none of its messages changes
\* monteCarloResult, isRunningMonteCarlo or error.
C27_SupersededRunsNeverApplied ==
    [][/\ StaleIgnored
       /\ (SetDCFInputs \/ SetMonteCarloParams \/ Reset \/ RunMonteCarlo \/ LoadApplied
             \/ SnapshotRestored)
            => \A r \in 1..Len(browser.workers) : store'.monteCarloRunId # r]_vars

\* a successful result arrived for a run that was no longer current and was dropped
C27_Witness ==
    /\ store # Unset
    /\ \E r \in 1..Len(browser.workers) :
          /\ browser.workers[r].at = "dropped"
          /\ browser.workers[r].data = Success(MonteCarloOf(r))
          /\ store.monteCarloResult # MonteCarloOf(r)

\* what a loadSymbol call shows of its symbol
loadedSymbol(s) == <<s.currentSymbol, s.financialData, s.dcfInputs>>

\* C28: when loadSymbol calls overlap, a call that completes after a call
\* made later than it has stored its data changes none of currentSymbol,
\* financialData, dcfInputs: the store keeps the symbol requested last.
C28_EarlierLoadNeverOverwrites ==
    [][\A i \in 1..Len(loads) :
          (LoadSymbolAfterWacc(i) /\ \E j \in (i + 1)..Len(loads) : loads[j].at = "applied")
              => loadedSymbol(store') = loadedSymbol(store)]_vars

\* a result is null or was computed from the inputs and the data of s
fromCurrent(s, result) ==
    result # Null => (result.inputs = s.dcfInputs /\ result.fin = s.financialData)

\* C29: after any sequence of store actions each of dcfResult,
\* structuralCheck and marketImplied is null or was computed from the
\* store's current dcfInputs and financialData.
C29_ResultsFromCurrentInputs ==
    store # Unset =>
        /\ fromCurrent(store, store.dcfResult)
        /\ fromCurrent(store, store.structuralCheck)
        /\ fromCurrent(store, store.marketImplied)

\* C30: every runMonteCarlo call leaves isRunningMonteCarlo false in the end,
\* through its own result or error or through the action that superseded
\* it, given that each started worker posts one message or raises an error
\* in the end: whenever isRunningMonteCarlo is true it is false later.
C30_EveryRunEnds == store.isRunningMonteCarlo ~> ~store.isRunningMonteCarlo

\* a run handed to a worker has ended through the worker's own message
C30_Witness ==
    /\ store # Unset
    /\ ~store.isRunningMonteCarlo
    /\ \E r \in 1..Len(browser.workers) :
          /\ browser.workers[r].at = "terminated"
          /\ store.monteCarloRunId = r
          /\ \/ store.monteCarloResult = MonteCarloOf(r)
             \/ browser.workers[r].data = Failure /\ store.error # Null

====
